---- MODULE Spec2Model ----
(***************************************************************************)
(* Document-operation execution engine (src/yb/docdb/doc_operation.cc).    *)
(*                                                                         *)
(* The Redis part follows one DocDB snapshot history `hist`, a write batch *)
(* `batch` (puts plus the DocWriteBatchCache) and the RedisResponsePB of   *)
(* the operations executed against the batch.  A snapshot maps every live  *)
(* encoded SubDocKey (a path of segments) to the value stored under it.    *)
(* TTLs are always kMaxTtl.  Doubles are modelled by integers and int64 by *)
(* IntBits-bit two's complement integers.                                  *)
(***************************************************************************)
EXTENDS Integers, Sequences, FiniteSets, TLC

\* ------------------------------------------------------------------ bounds
IntBits == 4
MaxCommits == 2
MaxBatchOps == 2

Int64Max == 2^(IntBits - 1) - 1
Int64Min == 0 - 2^(IntBits - 1)

\* ------------------------------------------------------- strings and order
EmptyStr == << >>
DigitChars == <<"0", "1", "2", "3", "4", "5", "6", "7", "8", "9">>
NulChar == "nul"
CharOrder == <<"nul", "-", "0", "1", "2", "3", "4", "5", "6", "7", "8", "9", "a", "f", "g", "k", "m", "n">>

CharRank(c) == CHOOSE i \in 1..Len(CharOrder) : CharOrder[i] = c

IsDigit(c) == \E i \in 1..Len(DigitChars) : DigitChars[i] = c

DigitVal(c) == (CHOOSE i \in 1..Len(DigitChars) : DigitChars[i] = c) - 1

RECURSIVE StrLess(_, _)
StrLess(a, b) ==
  IF Len(b) = 0 THEN FALSE
  ELSE IF Len(a) = 0 THEN TRUE
  ELSE IF a[1] # b[1] THEN CharRank(a[1]) < CharRank(b[1])
  ELSE StrLess(Tail(a), Tail(b))

\* ------------------------------------------------- keys, paths and values
\* A path segment: the redis key, a string sub-key, a double sub-key, a
\* descending timestamp sub-key or one of the system markers.
StrSeg(s) == [k |-> "kString", s |-> s, n |-> 0]
DoubleSeg(d) == [k |-> "kDouble", s |-> EmptyStr, n |-> d]
TsDescSeg(t) == [k |-> "kInt64Descending", s |-> EmptyStr, n |-> t]
MarkSeg(m) == [k |-> m, s |-> EmptyStr, n |-> 0]

kCounter == MarkSeg("kCounter")
kSSForward == MarkSeg("kSSForward")
kSSReverse == MarkSeg("kSSReverse")

KindOrder ==
  <<"kGroupEnd", "kCounter", "kSSForward", "kSSReverse", "kSystemColumnId", "kColumnId",
    "kArrayIndex", "kInt32", "kDouble", "kInt64Descending", "kString">>

KindRank(k) == CHOOSE i \in 1..Len(KindOrder) : KindOrder[i] = k

\* Order of the encoded segments (descending timestamps sort newest first).
SegLess(a, b) ==
  IF a.k # b.k THEN KindRank(a.k) < KindRank(b.k)
  ELSE IF a.k \in {"kDouble", "kInt32", "kArrayIndex"} THEN a.n < b.n
  ELSE IF a.k = "kInt64Descending" THEN a.n > b.n
  ELSE StrLess(a.s, b.s)

RECURSIVE PathLess(_, _)
PathLess(p, q) ==
  IF Len(q) = 0 THEN FALSE
  ELSE IF Len(p) = 0 THEN TRUE
  ELSE IF p[1] # q[1] THEN SegLess(p[1], q[1])
  ELSE PathLess(Tail(p), Tail(q))

IsPrefix(p, q) == Len(p) <= Len(q) /\ SubSeq(q, 1, Len(p)) = p

DocKeyFromRedisKey(key) == <<StrSeg(key)>>

\* Stored values: primitives, container markers and the tombstone.
Val(vt, s, n) == [vt |-> vt, s |-> s, n |-> n]
StringVal(s) == Val("kString", s, 0)
NullVal == Val("kNull", EmptyStr, 0)
Int64Val(n) == Val("kInt64", EmptyStr, n)
DoubleVal(d) == Val("kDouble", EmptyStr, d)
MarkerVal(vt) == Val(vt, EmptyStr, 0)
Tombstone == MarkerVal("kTombstone")

ObjectTypes == {"kObject", "kRedisSet", "kRedisTS", "kRedisSortedSet"}

IsObjectType(vt) == vt \in ObjectTypes

EmptySnap == [p \in {} |-> Tombstone]

\* ------------------------------------------------------ store (snapshots)
\* One write at `p`: it hides everything written below `p` before it.
PutKV(snap, p, v) ==
  LET keep == {q \in DOMAIN snap : ~IsPrefix(p, q)}
      dom == IF v.vt = "kTombstone" THEN keep ELSE keep \cup {p}
  IN [q \in dom |-> IF q = p THEN v ELSE snap[q]]

RECURSIVE ApplyPuts(_, _)
ApplyPuts(snap, puts) ==
  IF Len(puts) = 0 THEN snap
  ELSE ApplyPuts(PutKV(snap, puts[1].path, puts[1].val), Tail(puts))

\* SubDocKeyBound: an unset bound admits everything.
NoBound == [set |-> FALSE, seg |-> kCounter, excl |-> FALSE]
Bound(seg, excl) == [set |-> TRUE, seg |-> seg, excl |-> excl]

WithinBounds(seg, low, high) ==
  /\ (low.set => (SegLess(low.seg, seg) \/ (~low.excl /\ seg = low.seg)))
  /\ (high.set => (SegLess(seg, high.seg) \/ (~high.excl /\ seg = high.seg)))

\* GetSubDocument: the document under `path` as of one snapshot, its children
\* given as the live entries below it (relative path, value).
GetSubDocumentBounded(snap, path, low, high) ==
  IF path \notin DOMAIN snap
  THEN [found |-> FALSE, vt |-> "kInvalidValueType", s |-> EmptyStr, n |-> 0, kids |-> {}]
  ELSE [found |-> TRUE, vt |-> snap[path].vt, s |-> snap[path].s, n |-> snap[path].n,
        kids |-> {[rel |-> SubSeq(q, Len(path) + 1, Len(q)), val |-> snap[q]] :
                    q \in {x \in DOMAIN snap : /\ IsPrefix(path, x)
                                               /\ Len(x) > Len(path)
                                               /\ WithinBounds(x[Len(path) + 1], low, high)}}]

GetSubDocument(snap, path) == GetSubDocumentBounded(snap, path, NoBound, NoBound)

\* object_container(): the direct children, in key order.
Children(doc) == {kid.rel[1] : kid \in doc.kids}

RECURSIVE SortSegs(_)
SortSegs(S) ==
  IF S = {} THEN << >>
  ELSE LET m == CHOOSE x \in S : \A y \in S \ {x} : SegLess(x, y)
       IN <<m>> \o SortSegs(S \ {m})

\* ------------------------------------------------------------ write batch
EmptyCache == [p \in {} |-> "kTombstone"]
EmptyBatch == [puts |-> << >>, cache |-> EmptyCache]

CachePut(cache, p, vt) == [q \in DOMAIN cache \cup {p} |-> IF q = p THEN vt ELSE cache[q]]

BatchPut(b, p, v) ==
  [puts |-> Append(b.puts, [path |-> p, val |-> v]), cache |-> CachePut(b.cache, p, v.vt)]

\* DocWriteBatch::SetPrimitive with mandatory init markers: a missing parent
\* is created as kObject, a primitive parent is an error, and a delete below a
\* missing parent is a no-op.
RECURSIVE SetPrimitiveFrom(_, _, _, _, _)
SetPrimitiveFrom(b, latest, path, val, i) ==
  IF i >= Len(path) THEN [st |-> "OK", b |-> BatchPut(b, path, val)]
  ELSE LET prefix == SubSeq(path, 1, i)
           Walk(view) ==
             IF prefix \in DOMAIN view
             THEN IF IsObjectType(view[prefix].vt)
                  THEN SetPrimitiveFrom(b, latest, path, val, i + 1)
                  ELSE [st |-> "IllegalState", b |-> b]
             ELSE IF val.vt = "kTombstone"
                  THEN [st |-> "OK", b |-> b]
                  ELSE SetPrimitiveFrom(BatchPut(b, prefix, MarkerVal("kObject")),
                                        latest, path, val, i + 1)
       IN Walk(ApplyPuts(latest, b.puts))

SetPrimitive(b, latest, path, val) == SetPrimitiveFrom(b, latest, path, val, 1)

\* In-memory SubDocument: the root type (and primitive payload) plus the
\* leaves below it; containers without leaves write nothing.
PrimitiveDoc(v) == [vt |-> v.vt, s |-> v.s, n |-> v.n, leaves |-> {}]
ContainerDoc(vt, leaves) == [vt |-> vt, s |-> EmptyStr, n |-> 0, leaves |-> leaves]
Leaf(rel, val) == [rel |-> rel, val |-> val]

RECURSIVE ExtendLeaves(_, _, _, _)
ExtendLeaves(b, latest, path, leaves) ==
  IF leaves = {} THEN [st |-> "OK", b |-> b]
  ELSE LET Rest(l, r) ==
             IF r.st # "OK" THEN r ELSE ExtendLeaves(r.b, latest, path, leaves \ {l})
           Write(l) == Rest(l, SetPrimitive(b, latest, path \o l.rel, l.val))
       IN Write(CHOOSE x \in leaves : \A y \in leaves \ {x} : PathLess(x.rel, y.rel))

ExtendSubDocument(b, latest, path, doc) ==
  IF IsObjectType(doc.vt) THEN ExtendLeaves(b, latest, path, doc.leaves)
  ELSE SetPrimitive(b, latest, path, Val(doc.vt, doc.s, doc.n))

InsertSubDocument(b, latest, path, doc) ==
  IF IsObjectType(doc.vt)
  THEN LET Extend(r) == IF r.st # "OK" THEN r ELSE ExtendSubDocument(r.b, latest, path, doc)
       IN Extend(SetPrimitive(b, latest, path, MarkerVal(doc.vt)))
  ELSE ExtendSubDocument(b, latest, path, doc)

\* LookupCache: the value type cached for exactly this encoded key.
LookupCache(b, path) ==
  IF path \in DOMAIN b.cache THEN [hit |-> TRUE, vt |-> b.cache[path]]
  ELSE [hit |-> FALSE, vt |-> "kInvalidValueType"]


\* ------------------------------------------------------- redis: helpers
\* RedisKeyValuePB: key, declared type, sub-keys (segments) and values.
KV(key, type, subkeys, values) ==
  [key |-> key, type |-> type, subkeys |-> subkeys, values |-> values]

\* RedisResponsePB plus the call status.
NoResponse ==
  [code |-> "unset", has_int |-> FALSE, int |-> 0, has_str |-> FALSE, str |-> EmptyStr,
   err |-> "", has_arr |-> FALSE, arr |-> << >>]

SetCode(resp, c) == [resp EXCEPT !.code = c]
SetInt(resp, i) == [resp EXCEPT !.has_int = TRUE, !.int = i]
SetStr(resp, str) == [resp EXCEPT !.has_str = TRUE, !.str = str]
SetErr(resp, m) == [resp EXCEPT !.err = m]
SetArr(resp, a) == [resp EXCEPT !.has_arr = TRUE, !.arr = a]

Out(st, resp, b) == [st |-> st, resp |-> resp, b |-> b]

EmulateRedisResponse(flag, data_type) == flag /\ data_type # "TIMESERIES"

PrimitiveValueFromSubKeyStrict(seg, data_type) ==
  IF data_type \in {"LIST", "SET", "HASH"}
  THEN (IF seg.k = "kString" THEN "OK" ELSE "InvalidArgument")
  ELSE IF data_type = "TIMESERIES"
  THEN (IF seg.k = "kInt64Descending" THEN "OK" ELSE "InvalidArgument")
  ELSE IF data_type = "SORTEDSET"
  THEN (IF seg.k = "kDouble" THEN "OK" ELSE "InvalidArgument")
  ELSE "IllegalState"

\* The switch over doc.value_type() at the end of GetRedisValueType.
RedisTypeOfValueType(vt) ==
  IF vt \in {"kInvalidValueType", "kTombstone"} THEN "NONE"
  ELSE IF vt = "kObject" THEN "HASH"
  ELSE IF vt = "kRedisSet" THEN "SET"
  ELSE IF vt = "kRedisTS" THEN "TIMESERIES"
  ELSE IF vt = "kRedisSortedSet" THEN "SORTEDSET"
  ELSE IF vt \in {"kNull", "kString"} THEN "STRING"
  ELSE "Corruption"

\* GetRedisValueType: `useBatch` says whether a doc_write_batch was passed.
GetRedisValueType(snap, kv, useBatch, b, subkey_index) ==
  IF subkey_index >= 0 /\ subkey_index >= Len(kv.subkeys)
  THEN [st |-> "InvalidArgument", type |-> "NONE"]
  ELSE LET Decide(found, type) ==
             IF ~found THEN [st |-> "OK", type |-> "NONE"]
             ELSE IF type = "Corruption" THEN [st |-> "Corruption", type |-> "NONE"]
             ELSE [st |-> "OK", type |-> type]
           TypeOf(cached, doc) ==
             Decide(cached.hit \/ doc.found,
                    RedisTypeOfValueType(IF cached.hit THEN cached.vt ELSE doc.vt))
           Lookup(path) ==
             TypeOf(IF useBatch THEN LookupCache(b, path)
                    ELSE [hit |-> FALSE, vt |-> "kInvalidValueType"],
                    GetSubDocument(snap, path))
       IN Lookup(DocKeyFromRedisKey(kv.key) \o
                 (IF subkey_index < 0 THEN << >> ELSE <<kv.subkeys[subkey_index + 1]>>))

\* GetRedisValue reads the store only.  GetString() of a primitive that is
\* not a string is unspecified: `junk` stands for whatever it yields.
GetRedisValue(snap, kv, subkey_index, junk) ==
  IF Len(kv.subkeys) > 0 /\ Len(kv.subkeys) # 1 /\ subkey_index = -1
  THEN [st |-> "Corruption", type |-> "NONE", value |-> EmptyStr]
  ELSE LET ValueOf(doc) ==
             IF ~doc.found THEN [st |-> "OK", type |-> "NONE", value |-> EmptyStr]
             ELSE IF IsObjectType(doc.vt)
             THEN [st |-> "OK", type |-> RedisTypeOfValueType(doc.vt), value |-> EmptyStr]
             ELSE IF doc.vt = "kTombstone"
             THEN [st |-> "IllegalState", type |-> "NONE", value |-> EmptyStr]
             ELSE [st |-> "OK", type |-> "STRING",
                   value |-> IF doc.vt = "kString" THEN doc.s ELSE junk]
       IN ValueOf(GetSubDocument(snap,
            DocKeyFromRedisKey(kv.key) \o
            (IF Len(kv.subkeys) = 0 THEN << >>
             ELSE <<kv.subkeys[IF subkey_index = -1 THEN 1 ELSE subkey_index + 1]>>)))

VerifyTypeAndSetCode(expected_type, actual_type, resp, verify_success_if_missing) ==
  IF actual_type = "NONE"
  THEN [ok |-> verify_success_if_missing,
        resp |-> SetCode(resp, IF verify_success_if_missing THEN "OK" ELSE "NOT_FOUND")]
  ELSE IF actual_type # expected_type
  THEN [ok |-> FALSE, resp |-> SetCode(resp, "WRONG_TYPE")]
  ELSE [ok |-> TRUE, resp |-> SetCode(resp, "OK")]

\* The ValueType overload used by the collection reads.
VerifyValueTypeAndSetCode(expected_vt, actual_vt, resp) ==
  IF actual_vt # expected_vt
  THEN [ok |-> FALSE, resp |-> SetCode(resp, "WRONG_TYPE")]
  ELSE [ok |-> TRUE, resp |-> SetCode(resp, "OK")]

SetOptionalInt(type, value, none_value, resp) ==
  SetInt(resp, IF type = "NONE" THEN none_value ELSE value)

GetCardinality(snap, kv) ==
  LET CounterOfDoc(doc) == IF doc.found THEN doc.n ELSE 0
  IN CounterOfDoc(GetSubDocument(snap, DocKeyFromRedisKey(kv.key) \o <<kCounter>>))

\* std::stoll: optional sign, then decimal digits; trailing characters are
\* ignored.  (No whitespace occurs in the modelled alphabet.)
RECURSIVE DigitsPrefix(_)
DigitsPrefix(str) ==
  IF Len(str) = 0 \/ ~IsDigit(str[1]) THEN << >>
  ELSE <<str[1]>> \o DigitsPrefix(Tail(str))

RECURSIVE DigitsValue(_, _)
DigitsValue(ds, acc) ==
  IF Len(ds) = 0 THEN acc ELSE DigitsValue(Tail(ds), acc * 10 + DigitVal(ds[1]))

Stoll(str) ==
  LET neg == Len(str) > 0 /\ str[1] = "-"
      Range(v) ==
        IF v > Int64Max \/ v < Int64Min THEN [ok |-> "out_of_range", v |-> 0]
        ELSE [ok |-> "ok", v |-> v]
      Convert(ds) ==
        IF Len(ds) = 0 THEN [ok |-> "invalid_argument", v |-> 0]
        ELSE Range(IF neg THEN 0 - DigitsValue(ds, 0) ELSE DigitsValue(ds, 0))
  IN Convert(DigitsPrefix(IF neg THEN Tail(str) ELSE str))

\* std::to_string(int64_t)
RECURSIVE NatToString(_)
NatToString(n) ==
  IF n < 10 THEN <<DigitChars[n + 1]>>
  ELSE NatToString(n \div 10) \o <<DigitChars[(n % 10) + 1]>>

Int64ToString(n) == IF n < 0 THEN <<"-">> \o NatToString(0 - n) ELSE NatToString(n)

\* std::to_string(double) of a whole number: six decimals.
DoubleToString(d) == Int64ToString(d) \o <<".", "0", "0", "0", "0", "0", "0">>

\* Two's complement wrap-around of an int64 result.
WrapInt64(n) == ((n - Int64Min) % (2^IntBits)) + Int64Min


\* ------------------------------------------------- redis: write commands
\* Arguments shared by the Apply* operators:
\*   snap    the store as of data.read_time
\*   latest  the store as the write batch sees it
\*   b       data.doc_write_batch
\*   flag    FLAGS_emulate_redis_responses
RedisKeyPath(kv) == DocKeyFromRedisKey(kv.key)

PassStatus(st, b) == Out(st, NoResponse, b)

\* SET without sub-keys with the insert mode writing over a stored value.
ApplySetString_InsertOverwrites(snap, latest, b, kv, mode) ==
  IF kv.type # "STRING" THEN PassStatus("InvalidCommand", b)
  ELSE IF Len(kv.values) # 1 THEN PassStatus("InvalidCommand", b)
  ELSE LET Reply(data_type, w) ==
             IF mode # "UPSERT" /\ data_type.st # "OK" THEN PassStatus(data_type.st, b)
             ELSE IF mode = "UPDATE" /\ data_type.type = "NONE"
             THEN Out("OK", SetCode(NoResponse, "NOT_FOUND"), b)
             ELSE IF w.st # "OK" THEN PassStatus(w.st, w.b)
             ELSE Out("OK", SetCode(NoResponse, "OK"), w.b)
       IN Reply(GetRedisValueType(snap, kv, TRUE, b, -1),
                SetPrimitive(b, latest, RedisKeyPath(kv), StringVal(kv.values[1])))

\* SET without sub-keys.
ApplySetString(snap, latest, b, kv, mode) ==
  IF kv.type # "STRING" THEN PassStatus("InvalidCommand", b)
  ELSE IF Len(kv.values) # 1 THEN PassStatus("InvalidCommand", b)
  ELSE LET Reply(data_type, w) ==
             IF mode # "UPSERT" /\ data_type.st # "OK" THEN PassStatus(data_type.st, b)
             ELSE IF mode # "UPSERT" /\ ((mode = "INSERT" /\ data_type.type # "NONE")
                                         \/ (mode = "UPDATE" /\ data_type.type = "NONE"))
             THEN Out("OK", SetCode(NoResponse, "NOT_FOUND"), b)
             ELSE IF w.st # "OK" THEN PassStatus(w.st, w.b)
             ELSE Out("OK", SetCode(NoResponse, "OK"), w.b)
       IN Reply(GetRedisValueType(snap, kv, TRUE, b, -1),
                SetPrimitive(b, latest, RedisKeyPath(kv), StringVal(kv.values[1])))

\* kv_entries of HSET/HMSET/TSADD: a later sub-key overrides an equal one.
HashEntries(kv) ==
  {Leaf(<<kv.subkeys[i]>>, StringVal(kv.values[i])) :
     i \in {j \in 1..Len(kv.subkeys) : \A l \in (j + 1)..Len(kv.subkeys) :
                                          kv.subkeys[l] # kv.subkeys[j]}}

\* SET with sub-keys, declared type HASH or TIMESERIES.
ApplySetHash(snap, latest, b, kv, expect_ok_response, flag) ==
  LET strict == {PrimitiveValueFromSubKeyStrict(kv.subkeys[i], kv.type) :
                   i \in 1..Len(kv.subkeys)}
      readsSubkey == /\ Len(kv.subkeys) = 1
                     /\ EmulateRedisResponse(flag, kv.type)
                     /\ ~expect_ok_response
      Reply(data_type, type, resp1, w) ==
        IF data_type.st # "OK" THEN PassStatus(data_type.st, b)
        ELSE IF data_type.type # kv.type /\ data_type.type # "NONE"
        THEN Out("OK", SetCode(NoResponse, "WRONG_TYPE"), b)
        ELSE IF strict # {"OK"} THEN PassStatus("InvalidArgument", b)
        ELSE IF readsSubkey /\ type.st # "OK" THEN PassStatus(type.st, b)
        ELSE IF w.st # "OK" THEN Out(w.st, resp1, w.b)
        ELSE Out("OK", SetCode(resp1, "OK"), w.b)
      Write(data_type, type, kv_entries) ==
        Reply(data_type, type,
              IF readsSubkey THEN SetOptionalInt(type.type, 0, 1, NoResponse) ELSE NoResponse,
              IF data_type.type = "NONE" /\ kv.type = "TIMESERIES"
              THEN InsertSubDocument(b, latest, RedisKeyPath(kv), kv_entries)
              ELSE ExtendSubDocument(b, latest, RedisKeyPath(kv), kv_entries))
  IN Write(GetRedisValueType(snap, kv, TRUE, b, -1),
           GetRedisValueType(snap, kv, TRUE, b, 0),
           ContainerDoc(IF kv.type = "TIMESERIES" THEN "kRedisTS" ELSE "kObject",
                        HashEntries(kv)))


\* SubDocument::SetChild replaces the child; GetOrAddChild keeps it.
SetChildLeaves(leaves, seg, sub) ==
  {l \in leaves : l.rel[1] # seg} \cup {Leaf(<<seg>> \o l.rel, l.val) : l \in sub}

SetLeaf(leaves, rel, val) == {l \in leaves : l.rel # rel} \cup {Leaf(rel, val)}

SortedSetOptions(update_options, ch, incr) ==
  [update_options |-> update_options, ch |-> ch, incr |-> incr]

\* ZAddStep with NX overwriting the score of a member that is in the set.
ZAddStep_NxUpdates(snap, kv, opts, i, acc, junk) ==
  LET member == kv.values[i]
      score == kv.subkeys[i].n
      Merge(subdoc_reverse) ==
        LET found == subdoc_reverse.found
            old_score == IF found THEN subdoc_reverse.n ELSE junk
            isNew == ~found /\ opts.update_options \in {"NX", "NONE"}
            should_add_entry == IF ~found THEN opts.update_options \in {"NX", "NONE"}
                                ELSE opts.update_options \in {"XX", "NONE", "NX"}
            should_remove_existing_entry ==
              found /\ opts.update_options \in {"XX", "NONE"} /\ old_score # score
            score_to_add == IF opts.incr THEN score + old_score ELSE score
            fwd1 == IF should_remove_existing_entry
                    THEN SetChildLeaves(acc.fwd, DoubleSeg(old_score),
                                        {Leaf(<<StrSeg(member)>>, Tombstone)})
                    ELSE acc.fwd
            fwd2 == IF should_add_entry
                    THEN SetLeaf(fwd1, <<DoubleSeg(score_to_add), StrSeg(member)>>, NullVal)
                    ELSE fwd1
            rev2 == IF should_add_entry
                    THEN SetLeaf(acc.rev, <<StrSeg(member)>>, DoubleVal(score_to_add))
                    ELSE acc.rev
        IN [fwd |-> fwd2, rev |-> rev2,
            new_elements_added |-> acc.new_elements_added + (IF isNew THEN 1 ELSE 0),
            return_value |-> acc.return_value
                             + (IF isNew THEN 1 ELSE 0)
                             + (IF should_remove_existing_entry /\ opts.ch THEN 1 ELSE 0)]
  IN Merge(GetSubDocument(snap, RedisKeyPath(kv) \o <<kSSReverse, StrSeg(member)>>))

\* One iteration of the member loop of the SORTEDSET case of ApplySet.
\* GetDouble() of a reverse entry that was not found is unspecified: `junk`.
ZAddStep(snap, kv, opts, i, acc, junk) ==
  LET member == kv.values[i]
      score == kv.subkeys[i].n
      Merge(subdoc_reverse) ==
        LET found == subdoc_reverse.found
            old_score == IF found THEN subdoc_reverse.n ELSE junk
            isNew == ~found /\ opts.update_options \in {"NX", "NONE"}
            should_add_entry == IF ~found THEN opts.update_options \in {"NX", "NONE"}
                                ELSE opts.update_options \in {"XX", "NONE"}
            should_remove_existing_entry ==
              found /\ opts.update_options \in {"XX", "NONE"} /\ old_score # score
            score_to_add == IF opts.incr THEN score + old_score ELSE score
            fwd1 == IF should_remove_existing_entry
                    THEN SetChildLeaves(acc.fwd, DoubleSeg(old_score),
                                        {Leaf(<<StrSeg(member)>>, Tombstone)})
                    ELSE acc.fwd
            fwd2 == IF should_add_entry
                    THEN SetLeaf(fwd1, <<DoubleSeg(score_to_add), StrSeg(member)>>, NullVal)
                    ELSE fwd1
            rev2 == IF should_add_entry
                    THEN SetLeaf(acc.rev, <<StrSeg(member)>>, DoubleVal(score_to_add))
                    ELSE acc.rev
        IN [fwd |-> fwd2, rev |-> rev2,
            new_elements_added |-> acc.new_elements_added + (IF isNew THEN 1 ELSE 0),
            return_value |-> acc.return_value
                             + (IF isNew THEN 1 ELSE 0)
                             + (IF should_remove_existing_entry /\ opts.ch THEN 1 ELSE 0)]
  IN Merge(GetSubDocument(snap, RedisKeyPath(kv) \o <<kSSReverse, StrSeg(member)>>))

RECURSIVE ZAddLoop(_, _, _, _, _, _)
ZAddLoop(snap, kv, opts, i, acc, junk) ==
  IF i > Len(kv.subkeys) THEN acc
  ELSE ZAddLoop(snap, kv, opts, i + 1, ZAddStep(snap, kv, opts, i, acc, junk), junk)

\* SET with sub-keys, declared type SORTEDSET (ZADD).
ApplySetSortedSet(snap, latest, b, kv, opts, junk) ==
  LET Reply(data_type, acc, w) ==
        IF data_type.st # "OK" THEN PassStatus(data_type.st, b)
        ELSE IF data_type.type # kv.type /\ data_type.type # "NONE"
        THEN Out("OK", SetCode(NoResponse, "WRONG_TYPE"), b)
        ELSE IF w.st # "OK" THEN PassStatus(w.st, w.b)
        ELSE Out("OK", SetCode(SetInt(NoResponse, acc.return_value), "OK"), w.b)
      Write(data_type, acc, kv_entries) ==
        Reply(data_type, acc,
              IF kv_entries.leaves = {} THEN [st |-> "OK", b |-> b]
              ELSE IF data_type.type = "NONE"
              THEN InsertSubDocument(b, latest, RedisKeyPath(kv), kv_entries)
              ELSE ExtendSubDocument(b, latest, RedisKeyPath(kv), kv_entries))
      Entries(data_type, acc, card) ==
        Write(data_type, acc,
              ContainerDoc("kRedisSortedSet",
                (IF acc.new_elements_added > 0
                 THEN {Leaf(<<kCounter>>, Int64Val(card + acc.new_elements_added))}
                 ELSE {})
                \cup {Leaf(<<kSSForward>> \o l.rel, l.val) : l \in acc.fwd}
                \cup {Leaf(<<kSSReverse>> \o l.rel, l.val) : l \in acc.rev}))
  IN Entries(GetRedisValueType(snap, kv, TRUE, b, -1),
             ZAddLoop(snap, kv, opts, 1,
                      [fwd |-> {}, rev |-> {}, new_elements_added |-> 0, return_value |-> 0],
                      junk),
             GetCardinality(snap, kv))

\* RedisWriteOperation::ApplySet
ApplySet(snap, latest, b, kv, mode, expect_ok_response, opts, flag, junk) ==
  IF Len(kv.subkeys) > 0
  THEN IF kv.type \in {"TIMESERIES", "HASH"}
       THEN ApplySetHash(snap, latest, b, kv, expect_ok_response, flag)
       ELSE IF kv.type = "SORTEDSET"
       THEN ApplySetSortedSet(snap, latest, b, kv, opts, junk)
       ELSE PassStatus("InvalidCommand", b)
  ELSE ApplySetString(snap, latest, b, kv, mode)


\* ApplyGetSet writing the new value before it verifies the stored type.
ApplyGetSet_WritesFirst(snap, latest, b, kv, junk) ==
  LET Reply(value, v, w) ==
        IF value.st # "OK" THEN PassStatus(value.st, b)
        ELSE IF Len(kv.values) # 1 THEN PassStatus("Corruption", b)
        ELSE IF ~v.ok THEN Out("OK", v.resp, w.b)
        ELSE Out(w.st, SetStr(v.resp, value.value), w.b)
      Write(value) ==
        Reply(value, VerifyTypeAndSetCode("STRING", value.type, NoResponse, FALSE),
              SetPrimitive(b, latest, RedisKeyPath(kv), StringVal(kv.values[1])))
  IN Write(GetRedisValue(snap, kv, -1, junk))

\* RedisWriteOperation::ApplyGetSet
ApplyGetSet(snap, latest, b, kv, junk) ==
  LET Reply(value, v, w) ==
        IF value.st # "OK" THEN PassStatus(value.st, b)
        ELSE IF Len(kv.values) # 1 THEN PassStatus("Corruption", b)
        ELSE IF ~v.ok THEN Out("OK", v.resp, b)
        ELSE Out(w.st, SetStr(v.resp, value.value), w.b)
      Write(value) ==
        Reply(value, VerifyTypeAndSetCode("STRING", value.type, NoResponse, FALSE),
              SetPrimitive(b, latest, RedisKeyPath(kv), StringVal(kv.values[1])))
  IN Write(GetRedisValue(snap, kv, -1, junk))

\* ApplyAppend writing the new bytes in front of the old value.
ApplyAppend_Prepends(snap, latest, b, kv, junk) ==
  LET Reply(value, v, appended, w) ==
        IF Len(kv.values) # 1 THEN PassStatus("Corruption", b)
        ELSE IF value.st # "OK" THEN PassStatus(value.st, b)
        ELSE IF ~v.ok THEN Out("OK", v.resp, b)
        ELSE Out(w.st, SetInt(v.resp, Len(appended)), w.b)
      Write(value, appended) ==
        Reply(value, VerifyTypeAndSetCode("STRING", value.type, NoResponse, TRUE), appended,
              SetPrimitive(b, latest, RedisKeyPath(kv), StringVal(appended)))
      Concat(value) == Write(value, kv.values[1] \o value.value)
  IN Concat(GetRedisValue(snap, kv, -1, junk))

\* RedisWriteOperation::ApplyAppend
ApplyAppend(snap, latest, b, kv, junk) ==
  LET Reply(value, v, appended, w) ==
        IF Len(kv.values) # 1 THEN PassStatus("Corruption", b)
        ELSE IF value.st # "OK" THEN PassStatus(value.st, b)
        ELSE IF ~v.ok THEN Out("OK", v.resp, b)
        ELSE Out(w.st, SetInt(v.resp, Len(appended)), w.b)
      Write(value, appended) ==
        Reply(value, VerifyTypeAndSetCode("STRING", value.type, NoResponse, TRUE), appended,
              SetPrimitive(b, latest, RedisKeyPath(kv), StringVal(appended)))
      Concat(value) == Write(value, value.value \o kv.values[1])
  IN Concat(GetRedisValue(snap, kv, -1, junk))

\* std::string::resize(n, 0) followed by replace(offset, len, v).
Resize(str, n) == str \o [i \in 1..(n - Len(str)) |-> NulChar]

Replace(str, offset, v) ==
  SubSeq(str, 1, offset) \o v \o SubSeq(str, offset + Len(v) + 1, Len(str))

\* ApplySetRange that writes at the end of a shorter value instead of padding
\* it up to the offset.
ApplySetRange_NoPadding(snap, latest, b, kv, offset, junk) ==
  LET Reply(value, v, replaced, w) ==
        IF Len(kv.values) # 1 THEN PassStatus("Corruption", b)
        ELSE IF value.st # "OK" THEN PassStatus(value.st, b)
        ELSE IF ~v.ok THEN Out("OK", v.resp, b)
        ELSE Out(w.st, SetInt(v.resp, Len(replaced)), w.b)
      Write(value, replaced) ==
        Reply(value, VerifyTypeAndSetCode("STRING", value.type, NoResponse, TRUE), replaced,
              SetPrimitive(b, latest, RedisKeyPath(kv), StringVal(replaced)))
      Splice(value) ==
        Write(value,
              Replace(value.value,
                      IF offset > Len(value.value) THEN Len(value.value) ELSE offset,
                      kv.values[1]))
  IN Splice(GetRedisValue(snap, kv, -1, junk))

\* RedisWriteOperation::ApplySetRange
ApplySetRange(snap, latest, b, kv, offset, junk) ==
  LET Reply(value, v, replaced, w) ==
        IF Len(kv.values) # 1 THEN PassStatus("Corruption", b)
        ELSE IF value.st # "OK" THEN PassStatus(value.st, b)
        ELSE IF ~v.ok THEN Out("OK", v.resp, b)
        ELSE Out(w.st, SetInt(v.resp, Len(replaced)), w.b)
      Write(value, replaced) ==
        Reply(value, VerifyTypeAndSetCode("STRING", value.type, NoResponse, TRUE), replaced,
              SetPrimitive(b, latest, RedisKeyPath(kv), StringVal(replaced)))
      Splice(value) ==
        Write(value,
              Replace(IF offset > Len(value.value) THEN Resize(value.value, offset)
                      ELSE value.value,
                      offset, kv.values[1]))
  IN Splice(GetRedisValue(snap, kv, -1, junk))

\* RedisWriteOperation::ApplyIncr
ApplyIncr(snap, latest, b, kv, incr, junk) ==
  LET Reply(value, v, parsed, new_value, w) ==
        LET old_value == parsed.v
            overflow == \/ (incr < 0 /\ old_value < 0 /\ incr < Int64Min - old_value)
                        \/ (incr > 0 /\ old_value > 0 /\ incr > Int64Max - old_value)
        IN IF value.st # "OK" THEN PassStatus(value.st, b)
           ELSE IF ~v.ok THEN Out("OK", v.resp, b)
           ELSE IF parsed.ok # "ok"
           THEN Out("OK", SetErr(v.resp, "Can not parse incr argument as a number"), b)
           ELSE IF overflow THEN Out("OK", SetErr(v.resp, "Increment would overflow"), b)
           ELSE Out(w.st, SetInt(v.resp, new_value), w.b)
      Write(value, parsed, new_value) ==
        Reply(value, VerifyTypeAndSetCode("STRING", value.type, NoResponse, FALSE), parsed,
              new_value,
              SetPrimitive(b, latest, RedisKeyPath(kv), StringVal(Int64ToString(new_value))))
      Add(value, parsed) == Write(value, parsed, WrapInt64(parsed.v + incr))
      Parse(value) == Add(value, Stoll(value.value))
  IN Parse(GetRedisValue(snap, kv, -1, junk))


\* The SORTEDSET case of ApplyDel (ZREM): members found in the reverse map.
ZRemFound(snap, kv) ==
  {i \in 1..Len(kv.subkeys) :
     GetSubDocument(snap, RedisKeyPath(kv) \o <<kSSReverse, StrSeg(kv.subkeys[i].s)>>).found}

ZRemScore(snap, kv, i) ==
  GetSubDocument(snap, RedisKeyPath(kv) \o <<kSSReverse, StrSeg(kv.subkeys[i].s)>>).n

\* values_forward.SetChild(score, ...) replaces what an earlier member put
\* under the same score.
ZRemForward(snap, kv) ==
  LET Last(found, score) == {i \in found : \A j \in found : j > i => score[j] # score[i]}
  IN Last(ZRemFound(snap, kv), [i \in 1..Len(kv.subkeys) |-> ZRemScore(snap, kv, i)])

\* The default case of ApplyDel (HDEL/SREM): sub-keys whose type reads STRING.
DelSubkeyTypes_AllPresent(snap, b, kv) ==
  [i \in 1..Len(kv.subkeys) |-> [st |-> "OK", type |-> "STRING"]]

DelSubkeyTypes(snap, b, kv) ==
  [i \in 1..Len(kv.subkeys) |-> GetRedisValueType(snap, kv, TRUE, b, i - 1)]

\* RedisWriteOperation::ApplyDel
ApplyDel(snap, latest, b, kv, flag) ==
  LET emulate == EmulateRedisResponse(flag, kv.type)
      Reply(data_type, types, num_keys, w) ==
        LET strict == {PrimitiveValueFromSubKeyStrict(kv.subkeys[i], data_type.type) :
                         i \in 1..Len(kv.subkeys)}
            resp == SetCode(NoResponse, "OK")
        IN IF data_type.st # "OK" THEN PassStatus(data_type.st, b)
           ELSE IF data_type.type # "NONE" /\ data_type.type # kv.type /\ kv.type # "NONE"
           THEN Out("OK", SetCode(NoResponse, "WRONG_TYPE"), b)
           ELSE IF kv.type = "TIMESERIES" /\ data_type.type = "NONE" THEN PassStatus("OK", b)
           ELSE IF kv.type = "TIMESERIES" /\ strict # {"OK"} /\ strict # {}
           THEN PassStatus("InvalidArgument", b)
           ELSE IF kv.type \notin {"NONE", "TIMESERIES", "SORTEDSET"} /\ emulate
                   /\ \E i \in 1..Len(kv.subkeys) : types[i].st # "OK"
           THEN PassStatus(types[CHOOSE i \in 1..Len(kv.subkeys) :
                                   /\ types[i].st # "OK"
                                   /\ \A j \in 1..(i - 1) : types[j].st = "OK"].st, b)
           ELSE IF w.st # "OK" THEN PassStatus(w.st, w.b)
           ELSE Out("OK", IF emulate THEN SetInt(resp, num_keys) ELSE resp, w.b)
      Write(data_type, types, num_keys, values) ==
        Reply(data_type, types, num_keys,
              ExtendSubDocument(b, latest, RedisKeyPath(kv), values))
      Values(data_type, types, found, present, forward, card) ==
        Write(data_type, types,
              IF kv.type = "NONE" THEN (IF data_type.type = "NONE" THEN 0 ELSE 1)
              ELSE IF kv.type = "TIMESERIES" THEN 0
              ELSE IF kv.type = "SORTEDSET" THEN Cardinality(found)
              ELSE IF emulate THEN Cardinality(present) ELSE Len(kv.subkeys),
              IF kv.type = "NONE" THEN PrimitiveDoc(Tombstone)
              ELSE IF kv.type = "TIMESERIES"
              THEN ContainerDoc("kObject",
                     {Leaf(<<kv.subkeys[i]>>, Tombstone) : i \in 1..Len(kv.subkeys)})
              ELSE IF kv.type = "SORTEDSET"
              THEN ContainerDoc("kObject",
                     {Leaf(<<kCounter>>, Int64Val(card - Cardinality(found)))}
                     \cup {Leaf(<<kSSForward, DoubleSeg(forward[i]), StrSeg(kv.subkeys[i].s)>>,
                                Tombstone) : i \in DOMAIN forward}
                     \cup {Leaf(<<kSSReverse, StrSeg(kv.subkeys[i].s)>>, Tombstone) :
                             i \in found})
              ELSE ContainerDoc("kObject",
                     IF emulate
                     THEN {Leaf(<<StrSeg(kv.subkeys[i].s)>>, Tombstone) : i \in present}
                     ELSE {}))
      Collect(data_type, types) ==
        Values(data_type, types, ZRemFound(snap, kv),
               {i \in 1..Len(kv.subkeys) : types[i].type = "STRING"},
               [i \in ZRemForward(snap, kv) |-> ZRemScore(snap, kv, i)],
               GetCardinality(snap, kv))
  IN Collect(GetRedisValueType(snap, kv, TRUE, b, -1), DelSubkeyTypes(snap, b, kv))

\* RedisWriteOperation::ApplyAdd (SADD)
ApplyAdd_CountsStoreOnly(snap, latest, b, kv, flag) ==
  LET Reply(data_type, types, w) ==
        LET num_keys_found ==
              Cardinality({i \in 1..Len(kv.subkeys) : types[i].type # "NONE"})
            resp == SetCode(NoResponse, "OK")
        IN IF data_type.st # "OK" THEN PassStatus(data_type.st, b)
           ELSE IF data_type.type # "SET" /\ data_type.type # "NONE"
           THEN Out("OK", SetCode(NoResponse, "WRONG_TYPE"), b)
           ELSE IF Len(kv.subkeys) = 0 THEN PassStatus("InvalidCommand", b)
           ELSE IF w.st # "OK" THEN PassStatus(w.st, w.b)
           ELSE Out("OK", IF flag THEN SetInt(resp, Len(kv.subkeys) - num_keys_found)
                          ELSE resp, w.b)
      Write(data_type, types, set_entries) ==
        Reply(data_type, types,
              IF data_type.type = "NONE"
              THEN InsertSubDocument(b, latest, RedisKeyPath(kv), set_entries)
              ELSE ExtendSubDocument(b, latest, RedisKeyPath(kv), set_entries))
  IN Write(GetRedisValueType(snap, kv, TRUE, b, -1),
           [i \in 1..Len(kv.subkeys) |-> GetRedisValueType(snap, kv, FALSE, b, i - 1)],
           ContainerDoc("kRedisSet",
             {Leaf(<<StrSeg(kv.subkeys[i].s)>>, NullVal) : i \in 1..Len(kv.subkeys)}))

ApplyAdd(snap, latest, b, kv, flag) ==
  LET Reply(data_type, types, w) ==
        LET num_keys_found ==
              Cardinality({i \in 1..Len(kv.subkeys) : types[i].type # "NONE"})
            resp == SetCode(NoResponse, "OK")
        IN IF data_type.st # "OK" THEN PassStatus(data_type.st, b)
           ELSE IF data_type.type # "SET" /\ data_type.type # "NONE"
           THEN Out("OK", SetCode(NoResponse, "WRONG_TYPE"), b)
           ELSE IF Len(kv.subkeys) = 0 THEN PassStatus("InvalidCommand", b)
           ELSE IF flag /\ \E i \in 1..Len(kv.subkeys) : types[i].st # "OK"
           THEN PassStatus(types[CHOOSE i \in 1..Len(kv.subkeys) :
                                   /\ types[i].st # "OK"
                                   /\ \A j \in 1..(i - 1) : types[j].st = "OK"].st, b)
           ELSE IF w.st # "OK" THEN PassStatus(w.st, w.b)
           ELSE Out("OK", IF flag THEN SetInt(resp, Len(kv.subkeys) - num_keys_found)
                          ELSE resp, w.b)
      Write(data_type, types, set_entries) ==
        Reply(data_type, types,
              IF data_type.type = "NONE"
              THEN InsertSubDocument(b, latest, RedisKeyPath(kv), set_entries)
              ELSE ExtendSubDocument(b, latest, RedisKeyPath(kv), set_entries))
  IN Write(GetRedisValueType(snap, kv, TRUE, b, -1),
           [i \in 1..Len(kv.subkeys) |-> GetRedisValueType(snap, kv, TRUE, b, i - 1)],
           ContainerDoc("kRedisSet",
             {Leaf(<<StrSeg(kv.subkeys[i].s)>>, NullVal) : i \in 1..Len(kv.subkeys)}))


\* ------------------------------------------------- redis: read commands
ReadOut(st, resp) == [st |-> st, resp |-> resp]

\* AddPrimitiveValueToResponseArray: the element for a key or value.
ArrayElement(k, s, n) ==
  IF k \in {"kString", "kStringDescending"} THEN s
  ELSE IF k \in {"kDouble", "kDoubleDescending"} THEN DoubleToString(n)
  ELSE Int64ToString(n)

\* RedisReadOperation::ExecuteStrLen
ExecuteStrLen(snap, kv, junk) ==
  LET Reply(value, v) ==
        IF value.st # "OK" THEN ReadOut(value.st, NoResponse)
        ELSE ReadOut("OK", IF v.ok THEN SetOptionalInt(value.type, Len(value.value), 0, v.resp)
                           ELSE v.resp)
      Verify(value) == Reply(value, VerifyTypeAndSetCode("STRING", value.type, NoResponse, TRUE))
  IN Verify(GetRedisValue(snap, kv, -1, junk))

\* RedisReadOperation::ExecuteExists
ExecuteExists(snap, kv, junk) ==
  LET Reply(value) ==
        IF value.st # "OK" THEN ReadOut(value.st, NoResponse)
        ELSE ReadOut("OK", SetOptionalInt(value.type, 1, 0, SetCode(NoResponse, "OK")))
  IN Reply(GetRedisValue(snap, kv, -1, junk))

\* ApplyIndex that takes a negative index as out of bounds.
ApplyIndex_NoWrap(index, len) == IF index < 0 \/ index >= len THEN -1 ELSE index

\* RedisReadOperation::ApplyIndex
ApplyIndex(index, len) ==
  LET i == IF index < 0 THEN index + len ELSE index
  IN IF i < 0 \/ i >= len THEN -1 ELSE i

\* RedisReadOperation::ExecuteGetRange
ExecuteGetRange(snap, kv, range_start, range_end, junk) ==
  LET Reply(value, v) ==
        LET len == Len(value.value)
            start == ApplyIndex(range_start, len)
            end == ApplyIndex(range_end, len)
        IN IF value.st # "OK" THEN ReadOut(value.st, NoResponse)
           ELSE IF ~v.ok THEN ReadOut("OK", v.resp)
           ELSE IF start = -1 THEN ReadOut("OK", SetCode(v.resp, "INDEX_OUT_OF_BOUNDS"))
           ELSE IF end = -1 \/ end < start
           THEN ReadOut("OK", SetCode(v.resp, "INDEX_OUT_OF_BOUNDS"))
           ELSE ReadOut("OK", SetStr(v.resp, SubSeq(value.value, start + 1, end + 1)))
      Verify(value) == Reply(value, VerifyTypeAndSetCode("STRING", value.type, NoResponse, FALSE))
  IN Verify(GetRedisValue(snap, kv, -1, junk))

\* PopulateResponseFrom with AddResponseValuesGeneric over the direct
\* children of a document, in key order.
RECURSIVE PopulateGeneric(_, _, _, _)
PopulateGeneric(doc, segs, add_keys, add_values) ==
  IF Len(segs) = 0 THEN << >>
  ELSE LET seg == segs[1]
           child == CHOOSE kid \in doc.kids : kid.rel = <<seg>>
       IN (IF add_keys THEN <<ArrayElement(seg.k, seg.s, seg.n)>> ELSE << >>)
          \o (IF add_values
              THEN <<ArrayElement(child.val.vt, child.val.s, child.val.n)>> ELSE << >>)
          \o PopulateGeneric(doc, Tail(segs), add_keys, add_values)

\* RedisReadOperation::ExecuteHGetAllLikeCommands
ExecuteHGetAllLikeCommands(snap, kv, value_type, add_keys, add_values) ==
  LET withArr == IF add_keys \/ add_values THEN SetArr(NoResponse, << >>) ELSE NoResponse
      Reply(doc, v) ==
        LET top == {kid \in doc.kids : Len(kid.rel) = 1}
        IN IF value_type = "kRedisSortedSet" /\ ~(add_keys \/ add_values)
           THEN ReadOut("OK", SetInt(NoResponse, GetCardinality(snap, kv)))
           ELSE IF ~doc.found THEN ReadOut("OK", SetCode(withArr, "OK"))
           ELSE IF ~v.ok THEN ReadOut("OK", v.resp)
           ELSE IF add_values
                   /\ \E kid \in top : kid.val.vt \notin {"kString", "kInt64", "kDouble"}
           THEN ReadOut("InvalidArgument", v.resp)
           ELSE IF add_keys \/ add_values
           THEN ReadOut("OK", SetArr(v.resp,
                                     PopulateGeneric([doc EXCEPT !.kids = top],
                                                     SortSegs(Children(doc)),
                                                     add_keys, add_values)))
           ELSE ReadOut("OK", SetInt(v.resp, Cardinality(Children(doc))))
      Verify(doc) == Reply(doc, VerifyValueTypeAndSetCode(value_type, doc.vt, withArr))
  IN Verify(GetSubDocument(snap, RedisKeyPath(kv)))


\* The HMGET case of ExecuteGet: one element per sub-key, empty for nil.
HMGetValues(snap, kv, junk) ==
  [i \in 1..Len(kv.subkeys) |-> GetRedisValue(snap, kv, i - 1, junk)]

\* RedisReadOperation::ExecuteGet
ExecuteGet(snap, kv, request_type, junk) ==
  LET GetReply(value, v) ==
        IF value.st # "OK" THEN ReadOut(value.st, NoResponse)
        ELSE ReadOut("OK", IF v.ok THEN SetStr(v.resp, value.value) ELSE v.resp)
      ExistsReply(type, v, subtype) ==
        IF type.st # "OK" THEN ReadOut(type.st, NoResponse)
        ELSE IF ~v.ok THEN ReadOut("OK", v.resp)
        ELSE IF subtype.st # "OK" THEN ReadOut(subtype.st, v.resp)
        ELSE ReadOut("OK", SetOptionalInt(subtype.type, 1, 0, v.resp))
      StrLenReply(type, v, value) ==
        IF type.st # "OK" THEN ReadOut(type.st, NoResponse)
        ELSE IF ~v.ok THEN ReadOut("OK", v.resp)
        ELSE IF value.st # "OK" THEN ReadOut(value.st, v.resp)
        ELSE ReadOut("OK", SetOptionalInt(value.type, Len(value.value), 0, v.resp))
      HMGetReply(type, v, values) ==
        IF type.st # "OK" THEN ReadOut(type.st, NoResponse)
        ELSE IF ~v.ok THEN ReadOut("OK", v.resp)
        ELSE IF \E i \in 1..Len(kv.subkeys) : values[i].st # "OK"
        THEN ReadOut(values[CHOOSE i \in 1..Len(kv.subkeys) :
                              /\ values[i].st # "OK"
                              /\ \A j \in 1..(i - 1) : values[j].st = "OK"].st,
                     SetArr(v.resp, << >>))
        ELSE ReadOut("OK", SetCode(SetArr(v.resp,
                       [i \in 1..Len(kv.subkeys) |->
                          IF values[i].type = "STRING" THEN values[i].value ELSE EmptyStr]),
                       "OK"))
      Get(value) == GetReply(value, VerifyTypeAndSetCode("STRING", value.type, NoResponse, FALSE))
      OfCollection(type) ==
        IF request_type = "HSTRLEN"
        THEN StrLenReply(type, VerifyTypeAndSetCode("HASH", type.type, NoResponse, TRUE),
                         GetRedisValue(snap, kv, -1, junk))
        ELSE IF request_type = "HMGET"
        THEN HMGetReply(type, VerifyTypeAndSetCode("HASH", type.type, NoResponse, TRUE),
                        HMGetValues(snap, kv, junk))
        ELSE ExistsReply(type,
                         VerifyTypeAndSetCode(IF request_type = "HEXISTS" THEN "HASH" ELSE "SET",
                                              type.type, NoResponse, TRUE),
                         GetRedisValueType(snap, kv, FALSE, EmptyBatch, 0))
      value_type == IF request_type \in {"SMEMBERS", "SCARD"} THEN "kRedisSet"
                    ELSE IF request_type = "ZCARD" THEN "kRedisSortedSet"
                    ELSE "kObject"
  IN IF request_type \in {"GET", "TSGET", "HGET"} THEN Get(GetRedisValue(snap, kv, -1, junk))
     ELSE IF request_type \in {"HEXISTS", "SISMEMBER", "HSTRLEN", "HMGET"}
     THEN OfCollection(GetRedisValueType(snap, kv, FALSE, EmptyBatch, -1))
     ELSE IF request_type = "MGET" THEN ReadOut("NotSupported", NoResponse)
     ELSE IF request_type \in {"HGETALL", "HKEYS", "HVALS", "HLEN", "SMEMBERS", "SCARD", "ZCARD"}
     THEN ExecuteHGetAllLikeCommands(snap, kv, value_type,
                                     request_type \in {"HGETALL", "HKEYS", "SMEMBERS"},
                                     request_type \in {"HGETALL", "HVALS"})
     ELSE ReadOut("InvalidCommand", NoResponse)

\* RedisSubKeyBoundPB: an infinity or a value, inclusive unless is_exclusive.
SubKeyBound(infinity_type, v, is_exclusive) ==
  [infinity_type |-> infinity_type, v |-> v, is_exclusive |-> is_exclusive]

Reverse(seq) == [i \in 1..Len(seq) |-> seq[Len(seq) + 1 - i]]

\* PopulateResponseFrom with AddResponseValuesSortedSets: per score, the
\* members stored under it.
RECURSIVE PopulateSortedSets(_, _, _)
PopulateSortedSets(doc, scores, add_keys) ==
  IF Len(scores) = 0 THEN << >>
  ELSE LET score == scores[1]
           members == SortSegs({kid.rel[2] : kid \in {x \in doc.kids : /\ Len(x.rel) = 2
                                                                       /\ x.rel[1] = score}})
           row(m) == (IF add_keys THEN <<ArrayElement(score.k, score.s, score.n)>> ELSE << >>)
                     \o <<ArrayElement(m.k, m.s, m.n)>>
           RECURSIVE Rows(_)
           Rows(ms) == IF Len(ms) = 0 THEN << >> ELSE row(ms[1]) \o Rows(Tail(ms))
       IN Rows(members) \o PopulateSortedSets(doc, Tail(scores), add_keys)

\* GetAndPopulateResponseValues
GetAndPopulateResponseValues(snap, doc_key, expected_type, low, high, sortedSets, add_keys, add_values, reverse) ==
  LET withArr == SetArr(NoResponse, << >>)
      Reply(doc, v, ordered) ==
        LET flat == [doc EXCEPT !.kids = {kid \in doc.kids : Len(kid.rel) = 1}]
        IN IF ~doc.found THEN ReadOut("OK", SetCode(withArr, "OK"))
           ELSE IF ~v.ok THEN ReadOut("OK", v.resp)
           ELSE IF sortedSets
           THEN ReadOut("OK", SetArr(v.resp, PopulateSortedSets(doc, ordered, add_keys)))
           ELSE IF \E kid \in flat.kids : kid.val.vt \notin {"kString", "kInt64", "kDouble"}
           THEN ReadOut("InvalidArgument", v.resp)
           ELSE ReadOut("OK", SetArr(v.resp,
                                     PopulateGeneric(flat, ordered, add_keys, add_values)))
      Order(doc, segs) ==
        Reply(doc, VerifyValueTypeAndSetCode(expected_type, doc.vt, withArr),
              IF reverse THEN Reverse(segs) ELSE segs)
      Sort(doc) == Order(doc, SortSegs(Children(doc)))
  IN Sort(GetSubDocumentBounded(snap, doc_key, low, high))

\* ExecuteCollectionGetRange without the swap of the time-series bounds.
ExecuteCollectionGetRange_TsBoundsNotSwapped(snap, kv, request_type, lower_bound, upper_bound, with_scores) ==
  IF request_type \notin {"ZRANGEBYSCORE", "TSRANGEBYTIME"} THEN ReadOut("InvalidCommand", NoResponse)
  ELSE IF lower_bound.infinity_type = "POSITIVE" \/ upper_bound.infinity_type = "NEGATIVE"
  THEN ReadOut("OK", SetArr(SetCode(NoResponse, "OK"), << >>))
  ELSE IF request_type = "ZRANGEBYSCORE"
  THEN GetAndPopulateResponseValues(
         snap, RedisKeyPath(kv) \o <<kSSForward>>, "kObject",
         IF lower_bound.infinity_type # "none" THEN NoBound
         ELSE Bound(DoubleSeg(lower_bound.v), lower_bound.is_exclusive),
         IF upper_bound.infinity_type # "none" THEN NoBound
         ELSE Bound(DoubleSeg(upper_bound.v), upper_bound.is_exclusive),
         TRUE, with_scores, TRUE, FALSE)
  ELSE GetAndPopulateResponseValues(
         snap, RedisKeyPath(kv), "kRedisTS",
         IF lower_bound.infinity_type # "none" THEN NoBound
         ELSE Bound(TsDescSeg(lower_bound.v), lower_bound.is_exclusive),
         IF upper_bound.infinity_type # "none" THEN NoBound
         ELSE Bound(TsDescSeg(upper_bound.v), upper_bound.is_exclusive),
         FALSE, TRUE, TRUE, TRUE)

\* RedisReadOperation::ExecuteCollectionGetRange
ExecuteCollectionGetRange(snap, kv, request_type, lower_bound, upper_bound, with_scores) ==
  IF request_type \notin {"ZRANGEBYSCORE", "TSRANGEBYTIME"} THEN ReadOut("InvalidCommand", NoResponse)
  ELSE IF lower_bound.infinity_type = "POSITIVE" \/ upper_bound.infinity_type = "NEGATIVE"
  THEN ReadOut("OK", SetArr(SetCode(NoResponse, "OK"), << >>))
  ELSE IF request_type = "ZRANGEBYSCORE"
  THEN GetAndPopulateResponseValues(
         snap, RedisKeyPath(kv) \o <<kSSForward>>, "kObject",
         IF lower_bound.infinity_type # "none" THEN NoBound
         ELSE Bound(DoubleSeg(lower_bound.v), lower_bound.is_exclusive),
         IF upper_bound.infinity_type # "none" THEN NoBound
         ELSE Bound(DoubleSeg(upper_bound.v), upper_bound.is_exclusive),
         TRUE, with_scores, TRUE, FALSE)
  ELSE GetAndPopulateResponseValues(
         snap, RedisKeyPath(kv), "kRedisTS",
         IF upper_bound.infinity_type # "none" THEN NoBound
         ELSE Bound(TsDescSeg(upper_bound.v), upper_bound.is_exclusive),
         IF lower_bound.infinity_type # "none" THEN NoBound
         ELSE Bound(TsDescSeg(lower_bound.v), lower_bound.is_exclusive),
         FALSE, TRUE, TRUE, TRUE)


\* ============================================================== QL: schema
ColumnSchema(id, kind, type) == [id |-> id, kind |-> kind, type |-> type]

\* The table: hash key h, range key r, static column s and the regular
\* columns c, m (a map) and l (a list).
TableSchema ==
  <<ColumnSchema("h", "hash", "INT32"), ColumnSchema("r", "range", "INT32"),
    ColumnSchema("s", "static", "INT32"), ColumnSchema("c", "regular", "INT32"),
    ColumnSchema("m", "regular", "MAP"), ColumnSchema("l", "regular", "LIST")>>

ColumnIds ==
  LET Ids(columns) == [i \in 1..Len(columns) |-> columns[i].id]
  IN Ids(TableSchema)

column_by_id(id) ==
  LET Find(columns) == columns[CHOOSE i \in 1..Len(columns) : columns[i].id = id]
  IN Find(TableSchema)

is_key_column(id) == column_by_id(id).kind \in {"hash", "range"}

is_static(id) == column_by_id(id).kind = "static"

KeyColumnIds(kind) == SelectSeq(ColumnIds, LAMBDA id : column_by_id(id).kind = kind)

num_range_key_columns == Len(KeyColumnIds("range"))

ValueColumnIds == SelectSeq(ColumnIds, LAMBDA id : ~is_key_column(id))

\* CreateProjectionByIdsIgnoreMissing over a sorted set of column ids.
ProjectionOf(ids) == SelectSeq(ColumnIds, LAMBDA id : id \in ids)

SeqRange(q) == {q[i] : i \in 1..Len(q)}

\* --------------------------------------------------------- QL: doc keys
Int32Seg(n) == [k |-> "kInt32", s |-> EmptyStr, n |-> n]
ArrayIndexSeg(i) == [k |-> "kArrayIndex", s |-> EmptyStr, n |-> i]
ColumnSeg(id) == [k |-> "kColumnId", s |-> <<id>>, n |-> 0]
kGroupEnd == MarkSeg("kGroupEnd")
kLivenessColumn == MarkSeg("kSystemColumnId")

Int32Val(n) == Val("kInt32", EmptyStr, n)

DocKey(hashed_components, range_components) ==
  [hashed |-> hashed_components, range |-> range_components]

\* DocKey::Encode: the hashed components and the range components, each
\* group closed by kGroupEnd.
Encode(doc_key) ==
  [i \in 1..Len(doc_key.hashed) |-> Int32Seg(doc_key.hashed[i])] \o <<kGroupEnd>>
  \o [i \in 1..Len(doc_key.range) |-> Int32Seg(doc_key.range[i])] \o <<kGroupEnd>>

GroupEnds(path) == {i \in 1..Len(path) : path[i] = kGroupEnd}

HashedEnd(path) ==
  LET First(ends) == CHOOSE i \in ends : \A j \in ends : i <= j
  IN First(GroupEnds(path))

DocKeyEnd(path) ==
  LET First(ends) == CHOOSE i \in ends : \A j \in ends : i <= j
  IN First(GroupEnds(path) \ {HashedEnd(path)})

\* DocKey::DecodeFrom on the encoded key of a stored entry.
DecodeDocKey(path) ==
  LET Split(hashed_end, doc_key_end) ==
        DocKey([i \in 1..(hashed_end - 1) |-> path[i].n],
               [i \in 1..(doc_key_end - hashed_end - 1) |-> path[hashed_end + i].n])
  IN Split(HashedEnd(path), DocKeyEnd(path))

RECURSIVE IntSeqLess(_, _)
IntSeqLess(a, b) ==
  IF Len(b) = 0 THEN FALSE
  ELSE IF Len(a) = 0 THEN TRUE
  ELSE IF a[1] # b[1] THEN a[1] < b[1]
  ELSE IntSeqLess(Tail(a), Tail(b))

\* Order of the encoded doc keys: the static document of a hash key sorts
\* before the rows of that hash key.
DocKeyLess(a, b) ==
  IF a.hashed # b.hashed THEN IntSeqLess(a.hashed, b.hashed) ELSE IntSeqLess(a.range, b.range)

RECURSIVE SortDocKeys(_)
SortDocKeys(S) ==
  IF S = {} THEN << >>
  ELSE LET m == CHOOSE x \in S : \A y \in S \ {x} : DocKeyLess(x, y)
       IN <<m>> \o SortDocKeys(S \ {m})

\* ------------------------------------------- QL: write batch (no init markers)
\* DocWriteBatch with optional init markers: every write is appended as it
\* is, no parent is read or created.
SetPrimitiveQL(b, path, val) == BatchPut(b, path, val)

DeleteSubDoc(b, path) == SetPrimitiveQL(b, path, Tombstone)

RECURSIVE ExtendLeavesQL(_, _, _)
ExtendLeavesQL(b, path, leaves) ==
  IF leaves = {} THEN b
  ELSE LET l == CHOOSE x \in leaves : \A y \in leaves \ {x} : PathLess(x.rel, y.rel)
       IN ExtendLeavesQL(SetPrimitiveQL(b, path \o l.rel, l.val), path, leaves \ {l})

ExtendSubDocumentQL(b, path, doc) ==
  IF IsObjectType(doc.vt) THEN ExtendLeavesQL(b, path, doc.leaves)
  ELSE SetPrimitiveQL(b, path, Val(doc.vt, doc.s, doc.n))

InsertSubDocumentQL(b, path, doc) ==
  IF IsObjectType(doc.vt)
  THEN ExtendSubDocumentQL(SetPrimitiveQL(b, path, MarkerVal(doc.vt)), path, doc)
  ELSE ExtendSubDocumentQL(b, path, doc)

\* The array indexes of the live elements of the list stored at `path`.
ListIndexes(snap, path) ==
  {q[Len(path) + 1].n : q \in {x \in DOMAIN snap : IsPrefix(path, x) /\ Len(x) = Len(path) + 1}}

RECURSIVE SortInts(_)
SortInts(S) ==
  IF S = {} THEN << >>
  ELSE LET m == CHOOSE x \in S : \A y \in S : x <= y
       IN <<m>> \o SortInts(S \ {m})

RECURSIVE ExtendListFrom(_, _, _, _, _)
ExtendListFrom(b, path, doc, base, i) ==
  LET valueOf(seg) == (CHOOSE l \in doc.leaves : l.rel[1] = seg).val
      Put(elems) ==
        IF i > Len(elems) THEN b
        ELSE ExtendListFrom(SetPrimitiveQL(b, path \o <<ArrayIndexSeg(base + i)>>,
                                           valueOf(elems[i])),
                            path, doc, base, i + 1)
  IN Put(SortSegs({l.rel[1] : l \in doc.leaves}))

\* DocWriteBatch::ExtendList: the elements get array indexes after (APPEND)
\* or before (PREPEND) every index in use.
ExtendList(b, view, path, doc, order) ==
  LET From(used) ==
        ExtendListFrom(b, path, doc,
                       IF used = {} THEN 0
                       ELSE IF order = "APPEND" THEN CHOOSE x \in used : \A y \in used : y <= x
                       ELSE (CHOOSE x \in used : \A y \in used : x <= y)
                              - Cardinality(doc.leaves) - 1,
                       1)
  IN From(ListIndexes(view, path))

\* Whether the store fails the reads of DocWriteBatch::ReplaceInList (an I/O
\* error of its iterator).
VARIABLE ioError

\* The client's YBqlReadOp: its ql_read_request_ before and after the last
\* GetPartitionKey, and what that call returned.
VARIABLE readOp

\* The client's TabletInvoker with the RemoteTablet it shares with other RPCs,
\* and a record of the last handler that ran.
VARIABLE invoker

\* DocWriteBatch::ReplaceInList: overwrite the index-th live element (from 1)
\* of the list as of the read time; no such element is a QL error, and a
\* failed read of the list is an I/O error.
ReplaceInList(b, snap, path, index, doc) ==
  LET At(live) ==
        IF ioError THEN [st |-> "IOError", b |-> b]
        ELSE IF index < 1 \/ index > Len(live) THEN [st |-> "QLError", b |-> b]
        ELSE [st |-> "OK",
              b |-> SetPrimitiveQL(b, path \o <<ArrayIndexSeg(live[index])>>,
                                   Val(doc.vt, doc.s, doc.n))]
  IN At(SortInts(ListIndexes(snap, path)))

\* ----------------------------------------------------- QL: rows and scans
\* QLTableRow: the columns allocated so far, each null (<< >>) or <<value>>.
EmptyRow == [id \in {} |-> << >>]

IsEmpty(table_row) == DOMAIN table_row = {}

MergeRow(table_row, columns) ==
  [id \in DOMAIN table_row \cup DOMAIN columns |->
     IF id \in DOMAIN columns THEN columns[id] ELSE table_row[id]]

\* AllocColumn: a column not in the row yet is added as null.
AllocColumn(table_row, id) ==
  IF id \in DOMAIN table_row THEN table_row ELSE MergeRow(table_row, [x \in {id} |-> << >>])

\* The sub-keys the iterator looks for below a doc key: the liveness column
\* and the value columns of the projection.
DocFound(snap, doc_key, projection) ==
  LET Below(prefix) ==
        \E q \in DOMAIN snap :
          /\ IsPrefix(prefix, q)
          /\ Len(q) > Len(prefix)
          /\ \/ q[Len(prefix) + 1] = kLivenessColumn
             \/ \E id \in SeqRange(projection) : q[Len(prefix) + 1] = ColumnSeg(id)
  IN Below(Encode(doc_key))

ColumnValueAt(snap, doc_key, id) ==
  LET At(path) == IF path \in DOMAIN snap THEN <<snap[path].n>> ELSE << >>
  IN At(Encode(doc_key) \o <<ColumnSeg(id)>>)

\* DocRowwiseIterator::NextRow: the key columns of the doc key and every
\* column of the projection, null when nothing is stored for it.
KeyColumnsOf(doc_key) ==
  LET Columns(hs, rs) ==
        [id \in {hs[i] : i \in 1..Len(doc_key.hashed)}
                  \cup {rs[i] : i \in 1..Len(doc_key.range)} |->
           IF \E i \in 1..Len(doc_key.hashed) : hs[i] = id
           THEN <<doc_key.hashed[CHOOSE i \in 1..Len(doc_key.hashed) : hs[i] = id]>>
           ELSE <<doc_key.range[CHOOSE i \in 1..Len(doc_key.range) : rs[i] = id]>>]
  IN Columns(KeyColumnIds("hash"), KeyColumnIds("range"))

NextRow(snap, doc_key, projection, table_row) ==
  MergeRow(MergeRow(table_row, KeyColumnsOf(doc_key)),
           [id \in SeqRange(projection) |-> ColumnValueAt(snap, doc_key, id)])

\* The doc keys with a live entry in a snapshot.
DocKeysOf(snap) == {DecodeDocKey(p) : p \in DOMAIN snap}

\* HybridTime::MakeAtLeast
MakeAtLeast(restart_read_ht, ht) == IF ht > restart_read_ht THEN ht ELSE restart_read_ht

\* The documents a snapshot stores differently from the snapshot before it.
ChangedDocKeys(history, t) ==
  {DecodeDocKey(p) :
     p \in {q \in DOMAIN history[t] \cup DOMAIN history[t - 1] :
              \/ q \notin DOMAIN history[t]
              \/ q \notin DOMAIN history[t - 1]
              \/ history[t][q] # history[t - 1][q]}}

\* DocRowwiseIterator::RestartReadHt of an iterator over the documents
\* `doc_keys` reading at time t: the time of the latest record written after
\* t that the iterator came across, 0 (invalid) when there is none.
RECURSIVE RestartReadHt(_, _, _, _)
RestartReadHt(history, t, doc_keys, later) ==
  IF later <= t THEN 0
  ELSE IF ChangedDocKeys(history, later) \cap doc_keys # {} THEN later
  ELSE RestartReadHt(history, t, doc_keys, later - 1)

\* The documents of a history.
AllDocKeys(history) == UNION {DocKeysOf(history[t]) : t \in 1..Len(history)}

\* QLCondition: EXISTS, NOT_EXISTS, a comparison of one column, or a
\* conjunction of conditions.
Condition(op, column_id, value) ==
  [op |-> op, column_id |-> column_id, value |-> value, operands |-> << >>]

And(operands) == [op |-> "AND", column_id |-> "", value |-> 0, operands |-> operands]

\* EvalCondition: a comparison with a null or missing column is false.
RECURSIVE EvalCondition(_, _)
EvalCondition(condition, table_row) ==
  IF condition.op = "EXISTS" THEN ~IsEmpty(table_row)
  ELSE IF condition.op = "NOT_EXISTS" THEN IsEmpty(table_row)
  ELSE IF condition.op = "AND"
  THEN \A i \in 1..Len(condition.operands) : EvalCondition(condition.operands[i], table_row)
  ELSE /\ condition.column_id \in DOMAIN table_row
       /\ table_row[condition.column_id] # << >>
       /\ IF condition.op = "EQ" THEN table_row[condition.column_id][1] = condition.value
          ELSE table_row[condition.column_id][1] >= condition.value

\* DocQLScanSpec::Match: the WHERE condition, if any, on the row.
Match(where_expr, table_row) ==
  where_expr = << >> \/ EvalCondition(where_expr[1], table_row)

\* ---------------------------------------------------- QL: write operation
\* QLValuePB: null, an int32, a map (entries key -> value) or a list.
QLNull == [type |-> "NULL", n |-> 0, entries |-> {}, elems |-> << >>]
QLInt(n) == [type |-> "INT32", n |-> n, entries |-> {}, elems |-> << >>]
QLMap(entries) == [type |-> "MAP", n |-> 0, entries |-> entries, elems |-> << >>]
QLList(elems) == [type |-> "LIST", n |-> 0, entries |-> {}, elems |-> elems]

\* QLExpressionPB: a constant, or the value of a column plus a constant.
ConstExpr(value) == [ref |-> << >>, value |-> value]
RefExpr(column_id, n) == [ref |-> <<column_id>>, value |-> QLInt(n)]

EvalExpr(expr, table_row) ==
  IF expr.ref = << >> THEN expr.value
  ELSE IF expr.ref[1] \in DOMAIN table_row /\ table_row[expr.ref[1]] # << >>
       THEN QLInt(table_row[expr.ref[1]][1] + expr.value.n)
       ELSE QLNull

\* SubDocument::FromQLValuePB: null is a tombstone; the removal
\* instructions turn every entry of the collection into a tombstone.
FromQLValuePB(value, write_instr) ==
  IF value.type = "NULL" THEN PrimitiveDoc(Tombstone)
  ELSE IF value.type = "INT32" THEN PrimitiveDoc(Int32Val(value.n))
  ELSE IF value.type = "MAP"
  THEN ContainerDoc("kObject",
         {Leaf(<<Int32Seg(e.key)>>,
               IF write_instr \in {"kMapRemove", "kSetRemove"} THEN Tombstone
               ELSE Int32Val(e.val)) : e \in value.entries})
  ELSE ContainerDoc("kObject",
         {Leaf(<<ArrayIndexSeg(i)>>, Int32Val(value.elems[i])) : i \in 1..Len(value.elems)})

\* QLColumnValuePB
ColumnValue(column_id, expr, write_instr, subscript_args) ==
  [column_id |-> column_id, expr |-> expr, write_instr |-> write_instr,
   subscript_args |-> subscript_args]

ColumnRefs(ids, static_ids) == [ids |-> ids, static_ids |-> static_ids]

\* QLWriteRequestPB; if_expr and where_expr are << >> when absent.
QLWriteRequest(type, hashed, range, column_values, if_expr, where_expr, column_refs, has_user_timestamp) ==
  [type |-> type, hashed_column_values |-> hashed, range_column_values |-> range,
   column_values |-> column_values, if_expr |-> if_expr, where_expr |-> where_expr,
   column_refs |-> column_refs, has_user_timestamp |-> has_user_timestamp,
   has_ttl |-> FALSE]

\* The statement with USING TTL.
WithTtl(request) == [request EXCEPT !.has_ttl = TRUE]

\* Value(primitive, ttl, user_timestamp): a primitive with the time to live
\* and the write time the caller chose for it.
Value(primitive, ttl, user_timestamp) ==
  [vt |-> primitive.vt, s |-> primitive.s, n |-> primitive.n,
   ttl |-> ttl, user_timestamp |-> user_timestamp]

\* The ttl and user_timestamp locals of QLWriteOperation::Apply.
TtlOf(request) == IF request.has_ttl THEN "request.ttl" ELSE "kMaxTtl"

UserTimestampOf(request) ==
  IF request.has_user_timestamp THEN "request.user_timestamp_usec"
  ELSE "kInvalidUserTimestamp"

RequireReadForExpressions(request) ==
  \/ request.if_expr # << >>
  \/ request.column_refs.ids # {}
  \/ request.column_refs.static_ids # {}

IsRangeOperation(request) ==
  /\ num_range_key_columns > 0
  /\ request.range_column_values = << >>
  /\ request.column_values = << >>

\* RequireRead without the read a user timestamp asks for.
RequireRead_IgnoresTimestamp(request) ==
  RequireReadForExpressions(request) \/ IsRangeOperation(request)

RequireRead(request) ==
  RequireReadForExpressions(request) \/ request.has_user_timestamp \/ IsRangeOperation(request)

CreateProjections(column_refs) ==
  [static |-> ProjectionOf(column_refs.static_ids),
   non_static |-> ProjectionOf({id \in column_refs.ids : ~is_key_column(id)})]

\* hashed_doc_key_ and pk_doc_key_: << >> while null.
NoKeys == [hashed |-> << >>, pk |-> << >>]

InitializeKeys(request, keys, hashed_key, primary_key) ==
  [hashed |-> IF hashed_key /\ keys.hashed = << >>
              THEN <<DocKey(request.hashed_column_values, << >>)>>
              ELSE keys.hashed,
   pk |-> IF primary_key /\ keys.pk = << >>
          THEN IF request.hashed_column_values # << >>
               THEN <<DocKey(request.hashed_column_values, request.range_column_values)>>
               ELSE <<DocKey(<< >>, request.range_column_values)>>
          ELSE keys.pk]

\* QLWriteOperation::Init
QLWriteOperationInit(request) ==
  LET write_static_columns ==
        \E i \in 1..Len(request.column_values) : is_static(request.column_values[i].column_id)
      write_non_static_columns ==
        \E i \in 1..Len(request.column_values) : ~is_static(request.column_values[i].column_id)
  IN InitializeKeys(request, NoKeys,
                    write_static_columns \/ IsRangeOperation(request),
                    \/ write_non_static_columns
                    \/ request.range_column_values # << >>
                    \/ num_range_key_columns = 0)

GetDocPathsToLock(request) ==
  LET keys == QLWriteOperationInit(request)
  IN [paths |-> [i \in 1..Len(keys.hashed) |-> Encode(keys.hashed[i])]
                  \o [i \in 1..Len(keys.pk) |-> Encode(keys.pk[i])],
      level |-> IF RequireRead(request) THEN "SNAPSHOT_ISOLATION"
                ELSE "SERIALIZABLE_ISOLATION"]

\* QLWriteOperation::ReadColumns
ReadColumns(snap, request, keys0) ==
  LET Row(proj, keys, static_read) ==
        [table_row |-> IF keys.pk = << >> THEN static_read
                       ELSE IF DocFound(snap, keys.pk[1], proj.non_static)
                       THEN NextRow(snap, keys.pk[1], proj.non_static, static_read)
                       ELSE EmptyRow,
         keys |-> keys, proj |-> proj]
      StaticRow(proj, keys) ==
        Row(proj, keys,
            IF keys.hashed # << >> /\ DocFound(snap, keys.hashed[1], proj.static)
            THEN NextRow(snap, keys.hashed[1], proj.static, EmptyRow)
            ELSE EmptyRow)
      Keys(proj) ==
        StaticRow(proj, InitializeKeys(request, keys0, proj.static # << >>,
                                       proj.non_static # << >>))
  IN Keys(CreateProjections(request.column_refs))

\* QLTableRow::GetValue: a column the row does not hold reads as null.
GetValue(table_row, id) == IF id \in DOMAIN table_row THEN table_row[id] ELSE << >>

\* PopulateRow: the projection's columns of the row, in projection order.
PopulateRow(table_row, projection) ==
  [i \in 1..Len(projection) |->
     [id |-> projection[i], value |-> GetValue(table_row, projection[i])]]

\* IsConditionSatisfied returning the referenced columns of a row that does
\* not exist.
IsConditionSatisfied_AlwaysColumns(snap, request, keys0) ==
  LET Decide(rd, should_apply) ==
        [should_apply |-> should_apply,
         rowblock |-> <<[applied |-> should_apply,
                         columns |-> IF ~should_apply
                                     THEN PopulateRow(rd.table_row, rd.proj.static)
                                            \o PopulateRow(rd.table_row, rd.proj.non_static)
                                     ELSE << >>]>>,
         table_row |-> rd.table_row, keys |-> rd.keys]
      Evaluate(rd) == Decide(rd, EvalCondition(request.if_expr[1], rd.table_row))
  IN Evaluate(ReadColumns(snap, request, keys0))

\* QLWriteOperation::IsConditionSatisfied
IsConditionSatisfied(snap, request, keys0) ==
  LET Decide(rd, should_apply) ==
        [should_apply |-> should_apply,
         rowblock |-> <<[applied |-> should_apply,
                         columns |-> IF ~should_apply /\ ~IsEmpty(rd.table_row)
                                     THEN PopulateRow(rd.table_row, rd.proj.static)
                                            \o PopulateRow(rd.table_row, rd.proj.non_static)
                                     ELSE << >>]>>,
         table_row |-> rd.table_row, keys |-> rd.keys]
      Evaluate(rd) == Decide(rd, EvalCondition(request.if_expr[1], rd.table_row))
  IN Evaluate(ReadColumns(snap, request, keys0))

\* CheckUserTimestampForCollections that lets every timestamp pass.
CheckUserTimestampForCollections_AlwaysOk(has_user_timestamp) == "OK"

CheckUserTimestampForCollections(has_user_timestamp) ==
  IF has_user_timestamp THEN "InvalidArgument" ELSE "OK"

\* DocWriteBatch::DeleteSubDoc with a user timestamp: the tombstone carries
\* the write time the caller chose.
DeleteSubDocAt(b, path, user_timestamp) ==
  SetPrimitiveQL(b, path, Value(Tombstone, "kMaxTtl", user_timestamp))

RECURSIVE DeleteColumns(_, _, _)
DeleteColumns(b, row_path, i) ==
  IF i > Len(ValueColumnIds) THEN b
  ELSE DeleteColumns(DeleteSubDocAt(b, row_path \o <<ColumnSeg(ValueColumnIds[i])>>,
                                    "request.user_timestamp_usec"),
                     row_path, i + 1)

\* DeleteRow that deletes the row as a whole, whatever the statement says of
\* its write time.
DeleteRow_WholeRowOnly(b, request, row_path) == DeleteSubDoc(b, row_path)

\* QLWriteOperation::DeleteRow
DeleteRow(b, request, row_path) ==
  IF request.has_user_timestamp
  THEN DeleteSubDocAt(DeleteColumns(b, row_path, 1), row_path \o <<kLivenessColumn>>,
                      "request.user_timestamp_usec")
  ELSE DeleteSubDoc(b, row_path)

\* The outcome of a step of Apply: the call status, the batch, and the
\* response status the step has set ("" while unset).
Step(st, b, status) == [st |-> st, b |-> b, status |-> status, error_message |-> ""]

\* Status::ToString, as far as it is told apart: the name of the code.
StatusToString(s) == s.st

\* WriteColumnValue with the list index of the statement passed on as it is.
WriteColumnValue_ExternalIndex(snap, latest, b, request, keys, table_row, column_value) ==
  LET write_instr == column_value.write_instr
      checked == CheckUserTimestampForCollections(request.has_user_timestamp)
      Replaced(s) ==
        IF s.st = "QLError"
        THEN [Step("OK", s.b, "YQL_STATUS_USAGE_ERROR") EXCEPT !.error_message = StatusToString(s)]
        ELSE Step(s.st, s.b, "")
      Write(column, sub_path, sub_doc) ==
        IF column_value.subscript_args = << >>
        THEN IF write_instr = "kScalarInsert"
             THEN Step("OK", InsertSubDocumentQL(b, sub_path, sub_doc), "")
             ELSE IF checked # "OK" THEN Step(checked, b, "")
             ELSE IF write_instr \in {"kMapExtend", "kSetExtend", "kMapRemove", "kSetRemove"}
             THEN Step("OK", ExtendSubDocumentQL(b, sub_path, sub_doc), "")
             ELSE IF write_instr \in {"kListAppend", "kListPrepend"}
             THEN Step("OK",
                       ExtendList(b, ApplyPuts(latest, b.puts), sub_path, sub_doc,
                                  IF write_instr = "kListAppend" THEN "APPEND" ELSE "PREPEND"),
                       "")
             ELSE Step("OK", InsertSubDocumentQL(b, sub_path, sub_doc), "")
        ELSE IF checked # "OK" THEN Step(checked, b, "")
        ELSE IF column.type = "MAP"
        THEN Step("OK",
                  InsertSubDocumentQL(b, sub_path
                                         \o <<Int32Seg(column_value.subscript_args[1])>>,
                                      sub_doc),
                  "")
        ELSE IF column.type = "LIST"
        THEN Replaced(ReplaceInList(b, snap, sub_path, column_value.subscript_args[1],
                                    sub_doc))
        ELSE Step("OK", b, "")
      Locate(column) ==
        Write(column,
              (IF column.kind = "static" THEN Encode(keys.hashed[1]) ELSE Encode(keys.pk[1]))
                \o <<ColumnSeg(column.id)>>,
              FromQLValuePB(EvalExpr(column_value.expr, table_row), write_instr))
  IN Locate(column_by_id(column_value.column_id))

\* One assignment of an INSERT or UPDATE (the body of the loop over
\* column_values).
WriteColumnValue(snap, latest, b, request, keys, table_row, column_value) ==
  LET write_instr == column_value.write_instr
      checked == CheckUserTimestampForCollections(request.has_user_timestamp)
      Replaced(s) ==
        IF s.st = "QLError"
        THEN [Step("OK", s.b, "YQL_STATUS_USAGE_ERROR") EXCEPT !.error_message = StatusToString(s)]
        ELSE Step(s.st, s.b, "")
      Write(column, sub_path, sub_doc) ==
        IF column_value.subscript_args = << >>
        THEN IF write_instr = "kScalarInsert"
             THEN Step("OK", InsertSubDocumentQL(b, sub_path, sub_doc), "")
             ELSE IF checked # "OK" THEN Step(checked, b, "")
             ELSE IF write_instr \in {"kMapExtend", "kSetExtend", "kMapRemove", "kSetRemove"}
             THEN Step("OK", ExtendSubDocumentQL(b, sub_path, sub_doc), "")
             ELSE IF write_instr \in {"kListAppend", "kListPrepend"}
             THEN Step("OK",
                       ExtendList(b, ApplyPuts(latest, b.puts), sub_path, sub_doc,
                                  IF write_instr = "kListAppend" THEN "APPEND" ELSE "PREPEND"),
                       "")
             ELSE Step("OK", InsertSubDocumentQL(b, sub_path, sub_doc), "")
        ELSE IF checked # "OK" THEN Step(checked, b, "")
        ELSE IF column.type = "MAP"
        THEN Step("OK",
                  InsertSubDocumentQL(b, sub_path
                                         \o <<Int32Seg(column_value.subscript_args[1])>>,
                                      sub_doc),
                  "")
        ELSE IF column.type = "LIST"
        THEN Replaced(ReplaceInList(b, snap, sub_path, column_value.subscript_args[1] + 1,
                                    sub_doc))
        ELSE Step("OK", b, "")
      Locate(column) ==
        Write(column,
              (IF column.kind = "static" THEN Encode(keys.hashed[1]) ELSE Encode(keys.pk[1]))
                \o <<ColumnSeg(column.id)>>,
              FromQLValuePB(EvalExpr(column_value.expr, table_row), write_instr))
  IN Locate(column_by_id(column_value.column_id))

RECURSIVE WriteColumnValues(_, _, _, _, _, _, _)
WriteColumnValues(snap, latest, b, request, keys, table_row, i) ==
  IF i > Len(request.column_values) THEN Step("OK", b, "")
  ELSE LET Rest(r) ==
             IF r.st # "OK" \/ r.status # "" THEN r
             ELSE WriteColumnValues(snap, latest, r.b, request, keys, table_row, i + 1)
       IN Rest(WriteColumnValue(snap, latest, b, request, keys, table_row,
                                request.column_values[i]))

RECURSIVE DeleteColumnValues(_, _, _, _)
DeleteColumnValues(b, request, keys, i) ==
  IF i > Len(request.column_values) THEN b
  ELSE LET id == request.column_values[i].column_id
           doc_path == IF is_static(id) THEN Encode(keys.hashed[1]) ELSE Encode(keys.pk[1])
       IN DeleteColumnValues(DeleteSubDocAt(b, doc_path \o <<ColumnSeg(id)>>,
                                            UserTimestampOf(request)),
                             request, keys, i + 1)

\* The rows the iterator of a range delete returns: the doc keys under the
\* hashed components with something stored for the projection, in key order.
RangeScan(snap, hashed_components, projection) ==
  SortDocKeys({k \in DocKeysOf(snap) : /\ k.hashed = hashed_components
                                       /\ DocFound(snap, k, projection)})

RECURSIVE DeleteMatching(_, _, _, _, _, _)
DeleteMatching(snap, b, request, rows, projection, i) ==
  IF i > Len(rows) THEN b
  ELSE LET row == NextRow(snap, rows[i], projection, EmptyRow)
       IN DeleteMatching(snap,
                         IF Match(request.where_expr, row)
                         THEN DeleteRow(b, request, Encode(rows[i])) ELSE b,
                         request, rows, projection, i + 1)

\* ApplyStatement with a range delete that deletes every row the scan
\* returns, whatever the WHERE clause.
ApplyStatement_DeletesWholeRange(snap, latest, b, request, keys, table_row) ==
  IF request.type \in {"QL_STMT_INSERT", "QL_STMT_UPDATE"}
  THEN LET b1 == IF request.type = "QL_STMT_INSERT" /\ keys.pk # << >>
                 THEN SetPrimitiveQL(b, Encode(keys.pk[1]) \o <<kLivenessColumn>>,
                                     Value(NullVal, TtlOf(request),
                                           UserTimestampOf(request)))
                 ELSE b
       IN WriteColumnValues(snap, latest, b1, request, keys, table_row, 1)
  ELSE IF Len(request.column_values) > 0
  THEN Step("OK", DeleteColumnValues(b, request, keys, 1), "")
  ELSE IF IsRangeOperation(request)
  THEN LET projection == CreateProjections(request.column_refs).non_static
       IN Step("OK",
               DeleteMatching(snap, b, [request EXCEPT !.where_expr = << >>],
                              RangeScan(snap, request.hashed_column_values, projection),
                              projection, 1),
               "")
  ELSE Step("OK", DeleteRow(b, request, Encode(keys.pk[1])), "")

\* ApplyStatement with a liveness marker that never expires and has no
\* write time of its own, whatever the statement says.
ApplyStatement_PlainLiveness(snap, latest, b, request, keys, table_row) ==
  IF request.type \in {"QL_STMT_INSERT", "QL_STMT_UPDATE"}
  THEN LET b1 == IF request.type = "QL_STMT_INSERT" /\ keys.pk # << >>
                 THEN SetPrimitiveQL(b, Encode(keys.pk[1]) \o <<kLivenessColumn>>,
                                     Value(NullVal, "kMaxTtl", "kInvalidUserTimestamp"))
                 ELSE b
       IN WriteColumnValues(snap, latest, b1, request, keys, table_row, 1)
  ELSE IF Len(request.column_values) > 0
  THEN Step("OK", DeleteColumnValues(b, request, keys, 1), "")
  ELSE IF IsRangeOperation(request)
  THEN LET projection == CreateProjections(request.column_refs).non_static
       IN Step("OK",
               DeleteMatching(snap, b, request,
                              RangeScan(snap, request.hashed_column_values, projection),
                              projection, 1),
               "")
  ELSE Step("OK", DeleteRow(b, request, Encode(keys.pk[1])), "")

\* QLWriteOperation::Apply, the part run when the statement applies.
ApplyStatement(snap, latest, b, request, keys, table_row) ==
  IF request.type \in {"QL_STMT_INSERT", "QL_STMT_UPDATE"}
  THEN LET b1 == IF request.type = "QL_STMT_INSERT" /\ keys.pk # << >>
                 THEN SetPrimitiveQL(b, Encode(keys.pk[1]) \o <<kLivenessColumn>>,
                                     Value(NullVal, TtlOf(request),
                                           UserTimestampOf(request)))
                 ELSE b
       IN WriteColumnValues(snap, latest, b1, request, keys, table_row, 1)
  ELSE IF Len(request.column_values) > 0
  THEN Step("OK", DeleteColumnValues(b, request, keys, 1), "")
  ELSE IF IsRangeOperation(request)
  THEN LET projection == CreateProjections(request.column_refs).non_static
       IN Step("OK",
               DeleteMatching(snap, b, request,
                              RangeScan(snap, request.hashed_column_values, projection),
                              projection, 1),
               "")
  ELSE Step("OK", DeleteRow(b, request, Encode(keys.pk[1])), "")

\* QLResponsePB of a write, with the row block of a conditional write.
QLWriteResponse(status, error_message, rowblock) ==
  [status |-> status, error_message |-> error_message, rowblock |-> rowblock]

\* QLWriteOperation::Apply
QLWriteApply(snap, latest, b, request) ==
  LET Respond(cond, r) ==
        [st |-> r.st, b |-> r.b,
         resp |-> QLWriteResponse(IF r.status # "" THEN r.status
                                  ELSE IF r.st = "OK" THEN "YQL_STATUS_OK" ELSE "unset",
                                  r.error_message, cond.rowblock)]
      Run(cond) ==
        Respond(cond,
                IF cond.should_apply
                THEN ApplyStatement(snap, latest, b, request, cond.keys, cond.table_row)
                ELSE Step("OK", b, ""))
      Unconditional(table_row, keys) ==
        [should_apply |-> TRUE, rowblock |-> << >>, table_row |-> table_row, keys |-> keys]
      AfterRead(rd) == Unconditional(rd.table_row, rd.keys)
      Check(keys0) ==
        Run(IF request.if_expr # << >> THEN IsConditionSatisfied(snap, request, keys0)
            ELSE IF RequireReadForExpressions(request)
            THEN AfterRead(ReadColumns(snap, request, keys0))
            ELSE Unconditional(EmptyRow, keys0))
  IN Check(QLWriteOperationInit(request))

\* The scans of one QLWriteOperation::Apply, each as the documents its
\* iterator covers: the static and the primary-key read of ReadColumns, and
\* the scan of a range delete that is applied.
QLWriteScans(history, t, request) ==
  LET Scans(keys, should_apply) ==
        (IF request.if_expr # << >> \/ RequireReadForExpressions(request)
         THEN [i \in 1..Len(keys.hashed) |-> {keys.hashed[i]}]
                \o [i \in 1..Len(keys.pk) |-> {keys.pk[i]}]
         ELSE << >>)
        \o (IF /\ should_apply
               /\ request.type = "QL_STMT_DELETE"
               /\ Len(request.column_values) = 0
               /\ IsRangeOperation(request)
            THEN <<{k \in AllDocKeys(history) : k.hashed = request.hashed_column_values}>>
            ELSE << >>)
      After(rd) == Scans(rd.keys, request.if_expr = << >> \/ rd.should_apply)
      Read(keys0) ==
        IF request.if_expr # << >> THEN After(IsConditionSatisfied(history[t], request, keys0))
        ELSE IF RequireReadForExpressions(request)
        THEN After(ReadColumns(history[t], request, keys0))
        ELSE Scans(keys0, TRUE)
  IN Read(QLWriteOperationInit(request))

\* data.restart_read_ht after QLWriteOperation::Apply: raised to the hint
\* of every scan.
RECURSIVE QLWriteRestartReadHt(_, _, _, _, _)
QLWriteRestartReadHt(history, t, scans, i, restart_read_ht) ==
  IF i > Len(scans) THEN restart_read_ht
  ELSE QLWriteRestartReadHt(history, t, scans, i + 1,
                            MakeAtLeast(restart_read_ht,
                                        RestartReadHt(history, t, scans[i], Len(history))))


\* ----------------------------------------------------- QL: read operation
\* QLReadRequestPB; limit and paging_state are << >> when absent, and the
\* selected expressions are the columns named in `selected`.
QLReadRequest(hashed, where_expr, column_refs, selected, distinct, limit, is_aggregate, return_paging_state, paging_state) ==
  [hashed_column_values |-> hashed, where_expr |-> where_expr, column_refs |-> column_refs,
   selected |-> selected, distinct |-> distinct, limit |-> limit,
   is_aggregate |-> is_aggregate, return_paging_state |-> return_paging_state,
   paging_state |-> paging_state]

\* QLTableRow::MatchColumn and CopyColumn
MatchColumn(table_row, id, source) ==
  id \in DOMAIN table_row /\ id \in DOMAIN source /\ table_row[id] = source[id]

CopyColumn(table_row, id, source) ==
  MergeRow(table_row, [x \in {id} |-> IF id \in DOMAIN source THEN source[id] ELSE << >>])

RECURSIVE CopyColumns(_, _, _, _)
CopyColumns(table_row, ids, source, i) ==
  IF i > Len(ids) THEN table_row
  ELSE CopyColumns(CopyColumn(table_row, ids[i], source), ids, source, i + 1)

RECURSIVE AddProjectionFrom(_, _, _)
AddProjectionFrom(projection, table_row, i) ==
  IF i > Len(projection) THEN table_row
  ELSE AddProjectionFrom(projection, AllocColumn(table_row, projection[i]), i + 1)

AddProjection(projection, table_row) == AddProjectionFrom(projection, table_row, 1)

\* JoinStaticRow that copies the static columns whatever the hash key.
JoinStaticRow_IgnoresHashKey(static_projection, static_row, non_static_row) ==
  IF IsEmpty(static_row) THEN [ok |-> TRUE, row |-> non_static_row]
  ELSE [ok |-> TRUE, row |-> CopyColumns(non_static_row, static_projection, static_row, 1)]

\* JoinStaticRow: the outcome and the non-static row after it.
JoinStaticRow(static_projection, static_row, non_static_row) ==
  IF IsEmpty(static_row) THEN [ok |-> TRUE, row |-> non_static_row]
  ELSE IF \E id \in SeqRange(KeyColumnIds("hash")) : ~MatchColumn(non_static_row, id, static_row)
  THEN [ok |-> FALSE, row |-> non_static_row]
  ELSE [ok |-> TRUE, row |-> CopyColumns(non_static_row, static_projection, static_row, 1)]

\* JoinNonStaticRow: the outcome and the static row after it.
JoinNonStaticRow(static_projection, non_static_row, static_row) ==
  IF \A id \in SeqRange(KeyColumnIds("hash")) : MatchColumn(static_row, id, non_static_row)
  THEN [ok |-> TRUE, row |-> static_row]
  ELSE [ok |-> FALSE,
        row |-> CopyColumns(AddProjection(static_projection, EmptyRow),
                            KeyColumnIds("hash"), non_static_row, 1)]

\* BuildQLScanSpec: the scan starts at the row key of the paging state, and
\* the static row of that key's hash group is fetched by a spec of its own.
BuildQLScanSpec(request, read_static_columns) ==
  [spec |-> [hashed |-> request.hashed_column_values, where_expr |-> request.where_expr,
             start |-> request.paging_state],
   static_row_spec |->
     IF /\ request.paging_state # << >>
        /\ read_static_columns
        /\ request.paging_state[1].range # << >>
     THEN <<DocKey(request.paging_state[1].hashed, << >>)>>
     ELSE << >>]

\* The iterator of a read: the doc keys within the scan spec that have
\* something stored for the query's columns, in key order.
ScanStream(snap, spec, projection) ==
  SortDocKeys({k \in DocKeysOf(snap) :
                 /\ spec.hashed = << >> \/ k.hashed = spec.hashed
                 /\ spec.start = << >> \/ ~DocKeyLess(k, spec.start[1])
                 /\ DocFound(snap, k, projection)})

\* IsNextStaticColumn: the next doc key has no range components.
IsStaticKey(doc_key) == doc_key.range = << >>

\* The result set under construction: rows, match count, aggregate.
UnderLimit(request, rows) == request.limit = << >> \/ Len(rows) < request.limit[1]

\* PopulateResultSet: the selected columns of the row.
RSRow(request, table_row) ==
  [i \in 1..Len(request.selected) |-> GetValue(table_row, request.selected[i])]

\* AddRowToResult that also emits the matching row of an aggregate read.
AddRowToResult_EmitsEachRow(request, table_row, res) ==
  IF UnderLimit(request, res.rows) /\ Match(request.where_expr, table_row)
  THEN [res EXCEPT !.match_count = @ + 1,
                   !.aggr = IF request.is_aggregate THEN @ + 1 ELSE @,
                   !.rows = Append(@, RSRow(request, table_row))]
  ELSE res

\* AddRowToResult that adds the matching row whatever the result set holds.
AddRowToResult_IgnoresLimit(request, table_row, res) ==
  IF Match(request.where_expr, table_row)
  THEN IF request.is_aggregate
       THEN [res EXCEPT !.match_count = @ + 1, !.aggr = @ + 1]
       ELSE [res EXCEPT !.match_count = @ + 1, !.rows = Append(@, RSRow(request, table_row))]
  ELSE res

\* QLReadOperation::AddRowToResult
AddRowToResult(request, table_row, res) ==
  IF UnderLimit(request, res.rows) /\ Match(request.where_expr, table_row)
  THEN IF request.is_aggregate
       THEN [res EXCEPT !.match_count = @ + 1, !.aggr = @ + 1]
       ELSE [res EXCEPT !.match_count = @ + 1, !.rows = Append(@, RSRow(request, table_row))]
  ELSE res

\* The loop of QLReadOperation::Execute from position `pos` of the stream.
RECURSIVE Fetch(_, _, _, _, _)
Fetch(snap, request, proj, stream, st) ==
  IF ~(UnderLimit(request, st.res.rows) /\ st.pos <= Len(stream)) THEN st
  ELSE
    LET Advance(last_read_static, static_row, non_static_row, read, standalone) ==
          LET joins == proj.static # << >> \/ ~st.static_dealt_with
              DistinctStep(j) ==
                Fetch(snap, request, proj, stream,
                      [read EXCEPT !.static_row = j.row,
                                   !.res = IF j.ok THEN @
                                           ELSE AddRowToResult(request, j.row, @)])
              JoinedStep(j, emit_static) ==
                Fetch(snap, request, proj, stream,
                      [read EXCEPT !.static_row = IF emit_static THEN standalone ELSE @,
                                   !.non_static_row = j.row,
                                   !.static_dealt_with = TRUE,
                                   !.res = AddRowToResult(request, j.row,
                                             IF emit_static
                                             THEN AddRowToResult(request, standalone, st.res)
                                             ELSE st.res)])
              Joined(j) == JoinedStep(j, joins /\ ~j.ok /\ ~st.static_dealt_with)
          IN IF request.distinct
             THEN DistinctStep(IF last_read_static THEN [ok |-> FALSE, row |-> static_row]
                               ELSE JoinNonStaticRow(proj.static, non_static_row, static_row))
             ELSE IF last_read_static
             THEN IF read.pos <= Len(stream) /\ ~IsStaticKey(stream[read.pos])
                  THEN Fetch(snap, request, proj, stream,
                             [read EXCEPT !.static_dealt_with = FALSE])
                  ELSE Fetch(snap, request, proj, stream,
                             [read EXCEPT !.static_row = standalone,
                                          !.res = AddRowToResult(request, standalone, @)])
             ELSE Joined(IF joins THEN JoinStaticRow(proj.static, static_row, non_static_row)
                         ELSE [ok |-> TRUE, row |-> non_static_row])
        Rows(last_read_static, static_row, non_static_row) ==
          Advance(last_read_static, static_row, non_static_row,
                  [st EXCEPT !.pos = @ + 1, !.static_row = static_row,
                             !.non_static_row = non_static_row],
                  AddProjection(proj.non_static, static_row))
        Read(k) ==
          Rows(IsStaticKey(k),
               IF IsStaticKey(k) THEN NextRow(snap, k, proj.static, EmptyRow)
               ELSE st.static_row,
               IF IsStaticKey(k) THEN st.non_static_row
               ELSE NextRow(snap, k, proj.non_static, EmptyRow))
    IN Read(stream[st.pos])

\* DocRowwiseIterator::SetPagingStateIfNecessary: the key of the next row
\* the iterator would return, if there is one.
SetPagingStateIfNecessary(request, stream, pos) ==
  IF request.return_paging_state /\ pos <= Len(stream) THEN <<stream[pos]>> ELSE << >>

\* QLResponsePB of a read with its result set.
QLReadResponse(rows, paging_state) == [rows |-> rows, paging_state |-> paging_state]

\* Execute with the paging state taken at the row returned last.
Execute_PagesAtLastRow(snap, request) ==
  IF request.limit = <<0>> THEN [st |-> "OK", resp |-> QLReadResponse(<< >>, << >>)]
  ELSE
    LET Respond(stream, done, rows) ==
          [st |-> "OK",
           resp |-> QLReadResponse(
                      rows,
                      IF ~UnderLimit(request, rows) /\ ~request.is_aggregate
                      THEN SetPagingStateIfNecessary(request, stream, done.pos - 1)
                      ELSE << >>)]
        Collect(stream, done) ==
          Respond(stream, done,
                  IF request.is_aggregate /\ done.res.match_count > 0
                  THEN Append(done.res.rows, <<(<<done.res.aggr>>)>>)
                  ELSE done.res.rows)
        Scan(proj, stream, static_row) ==
          Collect(stream,
                  Fetch(snap, request, proj, stream,
                        [pos |-> 1, static_row |-> static_row, non_static_row |-> EmptyRow,
                         static_dealt_with |-> TRUE,
                         res |-> [rows |-> << >>, match_count |-> 0, aggr |-> 0]]))
        Start(proj, built) ==
          Scan(proj, ScanStream(snap, built.spec, proj.static \o proj.non_static),
               IF /\ built.static_row_spec # << >>
                  /\ DocFound(snap, built.static_row_spec[1], proj.static)
               THEN NextRow(snap, built.static_row_spec[1], proj.static, EmptyRow)
               ELSE EmptyRow)
        Build(proj) == Start(proj, BuildQLScanSpec(request, proj.static # << >>))
    IN Build(CreateProjections(request.column_refs))

\* QLReadOperation::Execute
Execute(snap, request) ==
  IF request.limit = <<0>> THEN [st |-> "OK", resp |-> QLReadResponse(<< >>, << >>)]
  ELSE
    LET Respond(stream, done, rows) ==
          [st |-> "OK",
           resp |-> QLReadResponse(
                      rows,
                      IF ~UnderLimit(request, rows) /\ ~request.is_aggregate
                      THEN SetPagingStateIfNecessary(request, stream, done.pos)
                      ELSE << >>)]
        Collect(stream, done) ==
          Respond(stream, done,
                  IF request.is_aggregate /\ done.res.match_count > 0
                  THEN Append(done.res.rows, <<(<<done.res.aggr>>)>>)
                  ELSE done.res.rows)
        Scan(proj, stream, static_row) ==
          Collect(stream,
                  Fetch(snap, request, proj, stream,
                        [pos |-> 1, static_row |-> static_row, non_static_row |-> EmptyRow,
                         static_dealt_with |-> TRUE,
                         res |-> [rows |-> << >>, match_count |-> 0, aggr |-> 0]]))
        Start(proj, built) ==
          Scan(proj, ScanStream(snap, built.spec, proj.static \o proj.non_static),
               IF /\ built.static_row_spec # << >>
                  /\ DocFound(snap, built.static_row_spec[1], proj.static)
               THEN NextRow(snap, built.static_row_spec[1], proj.static, EmptyRow)
               ELSE EmptyRow)
        Build(proj) == Start(proj, BuildQLScanSpec(request, proj.static # << >>))
    IN Build(CreateProjections(request.column_refs))

\* The scans of one QLReadOperation::Execute, each as the documents its
\* iterator covers: the main scan, and the static-row lookup of a read
\* resumed from a paging state.
QLReadScans(history, request) ==
  LET Scans(built) ==
        [main |-> {k \in AllDocKeys(history) :
                     /\ built.spec.hashed = << >> \/ k.hashed = built.spec.hashed
                     /\ built.spec.start = << >> \/ ~DocKeyLess(k, built.spec.start[1])},
         static |-> [i \in 1..Len(built.static_row_spec) |-> {built.static_row_spec[i]}]]
  IN Scans(BuildQLScanSpec(request, CreateProjections(request.column_refs).static # << >>))

\* *restart_read_ht after QLReadOperation::Execute: the hint of the main
\* iterator; a read with limit 0 returns before it is set.
QLReadRestartReadHt(history, t, request) ==
  IF request.limit = <<0>> THEN 0
  ELSE RestartReadHt(history, t, QLReadScans(history, request).main, Len(history))


\* ---------------------------------------------------- redis: state machine
VARIABLES
  hist,      \* the store: hist[t] is the snapshot a read at time t observes
  batch,     \* the DocWriteBatch being built: puts and lookup cache
  emulate,   \* FLAGS_emulate_redis_responses
  lastOp,    \* the last RedisWriteOperation::Apply: request, outcome, batch before
  nOps,      \* operations applied to the current batch
  committed, \* the batch applied last: its size and, if it was one operation, that one
  maxOps,    \* how many operations the caller puts into one batch
  maxCommits,\* how many batches the caller applies
  lastRead   \* the last RedisReadOperation::Execute: request and outcome

redisVars == <<hist, batch, emulate, lastOp, nOps, committed, maxOps, maxCommits, lastRead>>

TheKey == <<"k">>
InputStrs == {<<"7">>, <<"a">>}
SetStrs == InputStrs \cup {EmptyStr, <<"-", "8">>, <<"7", "a">>}
Fields == {<<"f">>, <<"g">>}
Members == {<<"m">>, <<"n">>}
Scores == {1, 2}
JunkScores == {0, 5}
Timestamps == {1, 2}
Offsets == {0, 2}
Increments == {-1, 1}
WriteModes == {"UPSERT", "INSERT", "UPDATE"}

NegInf == SubKeyBound("NEGATIVE", 0, FALSE)
PosInf == SubKeyBound("POSITIVE", 0, FALSE)

\* Requests of the collection commands.
HashRequests ==
  {KV(TheKey, "HASH", <<StrSeg(f)>>, <<v>>) : f \in Fields, v \in InputStrs}
  \cup {KV(TheKey, "HASH", <<StrSeg(<<"f">>), StrSeg(<<"g">>)>>, <<(<<"7">>), (<<"a">>)>>)}
  \cup {KV(TheKey, "TIMESERIES", <<TsDescSeg(t)>>, <<(<<"a">>)>>) : t \in Timestamps}

ZEntry(score, member) == [score |-> score, member |-> member]

ZEntryLists ==
  {<<ZEntry(sc, m)>> : sc \in Scores, m \in Members}
  \cup {<<ZEntry(1, <<"m">>), ZEntry(sc, <<"n">>)>> : sc \in Scores}
  \cup {<<ZEntry(1, <<"m">>), ZEntry(2, <<"m">>)>>}

ZAddKV(entries) ==
  KV(TheKey, "SORTEDSET",
     [i \in 1..Len(entries) |-> DoubleSeg(entries[i].score)],
     [i \in 1..Len(entries) |-> entries[i].member])

ZOptions ==
  {SortedSetOptions(u, FALSE, FALSE) : u \in {"NONE", "NX", "XX"}}
  \cup {SortedSetOptions("NONE", TRUE, FALSE), SortedSetOptions("NONE", FALSE, TRUE)}

MemberLists == {<<StrSeg(<<"m">>)>>, <<StrSeg(<<"n">>)>>, <<StrSeg(<<"m">>), StrSeg(<<"n">>)>>}
FieldLists == {<<StrSeg(<<"f">>)>>, <<StrSeg(<<"f">>), StrSeg(<<"g">>)>>}

SubDelRequests ==
  {KV(TheKey, "HASH", fs, << >>) : fs \in FieldLists}
  \cup {KV(TheKey, "SET", <<StrSeg(m)>>, << >>) : m \in Members}
  \cup {KV(TheKey, "TIMESERIES", <<TsDescSeg(t)>>, << >>) : t \in Timestamps}

GetRequests ==
  {[type |-> ty, kv |-> KV(TheKey, "NONE", <<StrSeg(<<"f">>)>>, << >>)] :
     ty \in {"HGET", "HEXISTS", "HSTRLEN"}}
  \cup {[type |-> "SISMEMBER", kv |-> KV(TheKey, "NONE", <<StrSeg(<<"m">>)>>, << >>)],
        [type |-> "TSGET", kv |-> KV(TheKey, "NONE", <<TsDescSeg(1)>>, << >>)],
        [type |-> "HMGET",
         kv |-> KV(TheKey, "NONE", <<StrSeg(<<"f">>), StrSeg(<<"g">>)>>, << >>)]}
  \cup {[type |-> ty, kv |-> KV(TheKey, "NONE", << >>, << >>)] :
          ty \in {"HGETALL", "HKEYS", "HVALS", "HLEN", "SMEMBERS", "SCARD", "ZCARD"}}

RangeIndexes == {0, 1, -1, -2}

LowerBounds == {NegInf, PosInf, SubKeyBound("none", 1, TRUE), SubKeyBound("none", 2, FALSE)}
UpperBounds == {PosInf, NegInf, SubKeyBound("none", 1, FALSE), SubKeyBound("none", 2, TRUE)}

NoOpts == SortedSetOptions("NONE", FALSE, FALSE)

Args(mode, expect_ok_response, opts, offset, incr) ==
  [mode |-> mode, expect_ok_response |-> expect_ok_response, opts |-> opts,
   offset |-> offset, incr |-> incr]

NoArgs == Args("UPSERT", FALSE, NoOpts, 0, 0)

NoOp == [cmd |-> "none", kv |-> KV(TheKey, "NONE", << >>, << >>), args |-> NoArgs,
         readT |-> 0, st |-> "OK", resp |-> NoResponse, pre |-> EmptyBatch]

\* Arguments of the range reads: string indexes or sub-key bounds.
ReadArgs(start, end, lower_bound, upper_bound, with_scores) ==
  [start |-> start, end |-> end, lower_bound |-> lower_bound, upper_bound |-> upper_bound,
   with_scores |-> with_scores]

NoReadArgs == ReadArgs(0, 0, NegInf, PosInf, FALSE)

NoRead == [cmd |-> "none", kv |-> KV(TheKey, "NONE", << >>, << >>), args |-> NoReadArgs,
           readT |-> 0, st |-> "OK", resp |-> NoResponse]

Latest == hist[Len(hist)]

\* The store after the batch is applied by the store layer.
Applied(b) == ApplyPuts(Latest, b.puts)

RecordWrite(cmd, kv, args, t, r) ==
  /\ batch' = r.b
  /\ lastOp' = [cmd |-> cmd, kv |-> kv, args |-> args, readT |-> t,
                st |-> r.st, resp |-> r.resp, pre |-> batch]
  /\ nOps' = nOps + 1
  /\ lastRead' = NoRead
  /\ UNCHANGED <<hist, emulate, committed, maxOps, maxCommits, ioError, readOp, invoker>>

RecordRead(cmd, kv, args, t, r) ==
  /\ lastRead' = [cmd |-> cmd, kv |-> kv, args |-> args, readT |-> t,
                  st |-> r.st, resp |-> r.resp]
  /\ UNCHANGED <<hist, batch, emulate, lastOp, nOps, committed, maxOps, maxCommits, ioError, readOp, invoker>>

\* The caller issues one request at a time, and builds no batch it will
\* not apply.
CanApply == nOps < maxOps /\ Len(hist) <= maxCommits /\ lastRead.cmd = "none"
CanRead == nOps = 0 /\ lastRead.cmd = "none"

\* RedisWriteOperation::Apply, one action per request case.
DoSetString ==
  /\ CanApply
  /\ \E t \in 1..Len(hist), v \in SetStrs, mode \in WriteModes :
       LET kv == KV(TheKey, "STRING", << >>, <<v>>)
       IN RecordWrite("SET", kv, Args(mode, FALSE, NoOpts, 0, 0), t,
                      ApplySet(hist[t], Latest, batch, kv, mode, FALSE, NoOpts, emulate, 0))

DoGetSet ==
  /\ CanApply
  /\ \E t \in 1..Len(hist), v \in InputStrs :
       LET kv == KV(TheKey, "STRING", << >>, <<v>>)
       IN RecordWrite("GETSET", kv, NoArgs, t,
                      ApplyGetSet(hist[t], Latest, batch, kv, EmptyStr))

DoAppend ==
  /\ CanApply
  /\ \E t \in 1..Len(hist), v \in InputStrs :
       LET kv == KV(TheKey, "STRING", << >>, <<v>>)
       IN RecordWrite("APPEND", kv, NoArgs, t,
                      ApplyAppend(hist[t], Latest, batch, kv, EmptyStr))

DoSetRange ==
  /\ CanApply
  /\ \E t \in 1..Len(hist), v \in InputStrs, offset \in Offsets :
       LET kv == KV(TheKey, "STRING", << >>, <<v>>)
       IN RecordWrite("SETRANGE", kv, Args("UPSERT", FALSE, NoOpts, offset, 0), t,
                      ApplySetRange(hist[t], Latest, batch, kv, offset, EmptyStr))

DoIncr ==
  /\ CanApply
  /\ \E t \in 1..Len(hist), incr \in Increments :
       LET kv == KV(TheKey, "STRING", << >>, << >>)
       IN RecordWrite("INCR", kv, Args("UPSERT", FALSE, NoOpts, 0, incr), t,
                      ApplyIncr(hist[t], Latest, batch, kv, incr, EmptyStr))

\* The store layer applies the batch: one new snapshot.
Commit ==
  /\ Len(hist) <= maxCommits
  /\ nOps > 0
  /\ hist' = Append(hist, Applied(batch))
  /\ batch' = EmptyBatch
  /\ nOps' = 0
  /\ committed' = [n |-> nOps, op |-> IF nOps = 1 THEN lastOp ELSE NoOp]
  /\ lastOp' = NoOp
  /\ lastRead' = NoRead
  /\ UNCHANGED <<emulate, maxOps, maxCommits, ioError, readOp, invoker>>

\* The caller drops a partially built batch; `args` of the record keeps how
\* many mutations were dropped with it.
Abandon ==
  /\ nOps > 0
  /\ batch' = EmptyBatch
  /\ nOps' = 0
  /\ lastOp' = [NoOp EXCEPT !.cmd = "abandoned", !.args = [dropped |-> Len(batch.puts)]]
  /\ lastRead' = NoRead
  /\ UNCHANGED <<hist, emulate, committed, maxOps, maxCommits, ioError, readOp, invoker>>


\* RedisReadOperation::Execute, one action per request case.
DoGet ==
  /\ CanRead
  /\ \E t \in 1..Len(hist) :
       LET kv == KV(TheKey, "STRING", << >>, << >>)
       IN RecordRead("GET", kv, NoReadArgs, t, ExecuteGet(hist[t], kv, "GET", EmptyStr))

DoStrLen ==
  /\ CanRead
  /\ \E t \in 1..Len(hist) :
       LET kv == KV(TheKey, "STRING", << >>, << >>)
       IN RecordRead("STRLEN", kv, NoReadArgs, t, ExecuteStrLen(hist[t], kv, EmptyStr))

DoExists ==
  /\ CanRead
  /\ \E t \in 1..Len(hist) :
       LET kv == KV(TheKey, "STRING", << >>, << >>)
       IN RecordRead("EXISTS", kv, NoReadArgs, t, ExecuteExists(hist[t], kv, EmptyStr))

\* SET with sub-keys: HSET, HMSET and TSADD.
DoSetHash ==
  /\ CanApply
  /\ \E t \in 1..Len(hist), kv \in HashRequests, expect_ok_response \in BOOLEAN :
       RecordWrite("HSET", kv, Args("UPSERT", expect_ok_response, NoOpts, 0, 0), t,
                   ApplySet(hist[t], Latest, batch, kv, "UPSERT", expect_ok_response,
                            NoOpts, emulate, 0))

\* SET with sub-keys of a sorted set: ZADD.
DoZAdd ==
  /\ CanApply
  /\ \E t \in 1..Len(hist), entries \in ZEntryLists, opts \in ZOptions, junk \in JunkScores :
       LET kv == ZAddKV(entries)
       IN RecordWrite("ZADD", kv, Args("UPSERT", FALSE, opts, 0, 0), t,
                      ApplySet(hist[t], Latest, batch, kv, "UPSERT", FALSE, opts, emulate, junk))

\* SADD
DoAdd ==
  /\ CanApply
  /\ \E t \in 1..Len(hist), ms \in MemberLists :
       LET kv == KV(TheKey, "SET", ms, << >>)
       IN RecordWrite("SADD", kv, NoArgs, t, ApplyAdd(hist[t], Latest, batch, kv, emulate))

\* DEL of the whole key.
DoDel ==
  /\ CanApply
  /\ \E t \in 1..Len(hist) :
       LET kv == KV(TheKey, "NONE", << >>, << >>)
       IN RecordWrite("DEL", kv, NoArgs, t, ApplyDel(hist[t], Latest, batch, kv, emulate))

\* DEL with a declared type and sub-keys: HDEL, SREM and TSREM.
DoSubDel ==
  /\ CanApply
  /\ \E t \in 1..Len(hist), kv \in SubDelRequests :
       RecordWrite("SUBDEL", kv, NoArgs, t, ApplyDel(hist[t], Latest, batch, kv, emulate))

\* DEL with declared type SORTEDSET: ZREM.
DoZRem ==
  /\ CanApply
  /\ \E t \in 1..Len(hist), ms \in MemberLists :
       LET kv == KV(TheKey, "SORTEDSET", ms, << >>)
       IN RecordWrite("ZREM", kv, NoArgs, t, ApplyDel(hist[t], Latest, batch, kv, emulate))

\* The get request types other than GET.
DoGetCollection ==
  /\ CanRead
  /\ \E t \in 1..Len(hist), req \in GetRequests, junk \in InputStrs :
       RecordRead(req.type, req.kv, NoReadArgs, t, ExecuteGet(hist[t], req.kv, req.type, junk))

DoGetRange ==
  /\ CanRead
  /\ \E t \in 1..Len(hist), start \in RangeIndexes, end \in RangeIndexes :
       LET kv == KV(TheKey, "STRING", << >>, << >>)
       IN RecordRead("GETRANGE", kv, ReadArgs(start, end, NegInf, PosInf, FALSE), t,
                     ExecuteGetRange(hist[t], kv, start, end, EmptyStr))

DoCollectionGetRange ==
  /\ CanRead
  /\ \E t \in 1..Len(hist), request_type \in {"ZRANGEBYSCORE", "TSRANGEBYTIME"},
        lower_bound \in LowerBounds, upper_bound \in UpperBounds, with_scores \in BOOLEAN :
       LET kv == KV(TheKey, "NONE", << >>, << >>)
       IN RecordRead(request_type, kv, ReadArgs(0, 0, lower_bound, upper_bound, with_scores), t,
                     ExecuteCollectionGetRange(hist[t], kv, request_type,
                                               lower_bound, upper_bound, with_scores))

\* RedisReadOperation::response(): the caller takes the response of the read.
TakeResponse ==
  /\ lastRead.cmd # "none"
  /\ lastRead' = NoRead
  /\ UNCHANGED <<hist, batch, emulate, lastOp, nOps, committed, maxOps, maxCommits, ioError, readOp, invoker>>

\* ------------------------------------------ client: YBqlReadOp partition key
\* PartitionSchema::EncodeMultiColumnHashValue and DecodeMultiColumnHashValue:
\* the 16-bit hash code as two bytes, high byte first.
EncodeMultiColumnHashValue(hash_code) == <<hash_code \div 2^8, hash_code % 2^8>>

DecodeMultiColumnHashValue(partition_key) == partition_key[1] * 2^8 + partition_key[2]

\* std::string operator< on partition keys.
RECURSIVE KeyLess(_, _)
KeyLess(a, b) ==
  IF Len(b) = 0 THEN FALSE
  ELSE IF Len(a) = 0 THEN TRUE
  ELSE IF a[1] # b[1] THEN a[1] < b[1]
  ELSE KeyLess(Tail(a), Tail(b))

\* PartitionSchema::EncodeKey: the partition key of the hashed column values,
\* the hash code of the one hash column being a fixed function of its value.
EncodeKey(hashed_column_values) ==
  EncodeMultiColumnHashValue((hashed_column_values[1] * (2^8 - 1) + 1) % 2^16)

\* QLPagingStatePB, as far as the partition key goes.
PagingState(has_next_partition_key, next_partition_key) ==
  [has_next_partition_key |-> has_next_partition_key,
   next_partition_key |-> next_partition_key]

\* QLReadRequestPB of the client; an absent hash code reads as 0, and
\* paging_state is << >> when absent.
ClientReadRequest(hashed, has_hash_code, hash_code, has_max_hash_code, max_hash_code, paging_state) ==
  [hashed_column_values |-> hashed, has_hash_code |-> has_hash_code, hash_code |-> hash_code,
   has_max_hash_code |-> has_max_hash_code, max_hash_code |-> max_hash_code,
   paging_state |-> paging_state]

SetHashCode(request, hash_code) ==
  [request EXCEPT !.has_hash_code = TRUE, !.hash_code = hash_code]

SetMaxHashCode(request, hash_code) ==
  [request EXCEPT !.has_max_hash_code = TRUE, !.max_hash_code = hash_code]

\* The paging-state part of GetPartitionKey with the bounds not checked.
FromPagingState_Unchecked(request, partition_key) ==
  IF /\ request.paging_state # << >>
     /\ request.paging_state[1].has_next_partition_key
     /\ request.paging_state[1].next_partition_key # << >>
  THEN [st |-> "OK", partition_key |-> request.paging_state[1].next_partition_key,
        request |-> SetHashCode(request,
                      DecodeMultiColumnHashValue(request.paging_state[1].next_partition_key))]
  ELSE [st |-> "OK", partition_key |-> partition_key, request |-> request]

\* YBqlReadOp::GetPartitionKey, the part for a continued query: the request
\* and *partition_key are what the first part left.
FromPagingState(request, partition_key) ==
  LET Check(key, paging_state_hash_code) ==
        IF \/ request.has_hash_code /\ paging_state_hash_code < request.hash_code
           \/ request.has_max_hash_code /\ paging_state_hash_code > request.max_hash_code
        THEN [st |-> "InternalError", partition_key |-> key, request |-> request]
        ELSE [st |-> "OK", partition_key |-> key,
              request |-> SetHashCode(request, paging_state_hash_code)]
  IN IF /\ request.paging_state # << >>
        /\ request.paging_state[1].has_next_partition_key
        /\ request.paging_state[1].next_partition_key # << >>
     THEN Check(request.paging_state[1].next_partition_key,
                DecodeMultiColumnHashValue(request.paging_state[1].next_partition_key))
     ELSE [st |-> "OK", partition_key |-> partition_key, request |-> request]

\* YBqlReadOp::GetPartitionKey: the status, *partition_key and the request
\* after the call.
GetPartitionKey(request) ==
  LET Clamp(key, lower, upper) ==
        IF upper # << >> /\ KeyLess(upper[1], IF lower # << >> /\ KeyLess(key, lower[1])
                                              THEN lower[1] ELSE key)
        THEN upper[1]
        ELSE IF lower # << >> /\ KeyLess(key, lower[1]) THEN lower[1] ELSE key
      Point(key) ==
        FromPagingState(SetMaxHashCode(SetHashCode(request, DecodeMultiColumnHashValue(key)),
                                       DecodeMultiColumnHashValue(key)),
                        key)
  IN IF request.hashed_column_values # << >>
     THEN Point(Clamp(EncodeKey(request.hashed_column_values),
                      IF request.has_hash_code
                      THEN <<EncodeMultiColumnHashValue(request.hash_code % 2^16)>> ELSE << >>,
                      IF request.has_max_hash_code
                      THEN <<EncodeMultiColumnHashValue(request.max_hash_code % 2^16)>>
                      ELSE << >>))
     ELSE FromPagingState(request,
                          IF request.has_hash_code
                          THEN EncodeMultiColumnHashValue(request.hash_code % 2^16)
                          ELSE << >>)

\* No call of GetPartitionKey yet, on a request without anything set.
NoReadOp ==
  [called |-> FALSE, st |-> "OK", partition_key |-> << >>,
   pre |-> ClientReadRequest(<< >>, FALSE, 0, FALSE, 0, << >>),
   request |-> ClientReadRequest(<< >>, FALSE, 0, FALSE, 0, << >>)]

\* ------------------------------------------------- client: TabletInvoker
\* The replicas of the tablet in the order RemoteTablet keeps them; "ts1" is
\* the local tablet server.
ReplicaOrder == <<"ts1", "ts2">>
Replicas == {ReplicaOrder[i] : i \in 1..Len(ReplicaOrder)}
NoTs == "nullptr"
LocalTs == "ts1"

\* The retrier schedules no more than this many retries before its deadline.
MaxRetries == 3

\* RemoteTablet, shared by the RPCs of a batcher: the replica it holds as the
\* leader, the replicas marked failed, and whether it is marked as split.
RemoteTablet(leader, failed, is_split) ==
  [leader |-> leader, failed |-> failed, is_split |-> is_split]

LeaderTServer(tablet) == IF tablet.leader \in tablet.failed THEN NoTs ELSE tablet.leader

MarkTServerAsFollower(tablet, ts) ==
  IF tablet.leader = ts THEN [tablet EXCEPT !.leader = NoTs] ELSE tablet

MarkTServerAsLeader(tablet, ts) == [tablet EXCEPT !.leader = ts]

MarkReplicaFailed(tablet, ts) ==
  IF ts \in Replicas THEN [tablet EXCEPT !.failed = @ \cup {ts}] ELSE tablet

MarkAsSplit(tablet) == [tablet EXCEPT !.is_split = TRUE]

\* GetRemoteTabletServers: the replicas not marked failed, and those of the
\* failed ones it gives another chance (`again`), in replica order.
GetRemoteTabletServers(tablet, again) ==
  SelectSeq(ReplicaOrder, LAMBDA ts : ts \notin tablet.failed \/ ts \in again)

\* What a handler of the invoker last did: the handler, its input, what Done
\* returned, whether a retry was scheduled, whether command_->Finished was
\* called, whether the RPC was sent, and the invoker before the handler.
NoLast ==
  [op |-> "none", in |-> << >>, ret |-> FALSE, scheduled |-> FALSE, finished |-> FALSE,
   sent |-> FALSE, pre |-> << >>]

\* The invoker's fields, the retrier's attempt number, where the command is
\* (pc), and how many times the operation was completed.
Invoker(has_tablet, local_tserver_only, consistent_prefix, tablet) ==
  [pc |-> "run", has_tablet |-> has_tablet, local_tserver_only |-> local_tserver_only,
   consistent_prefix |-> consistent_prefix, followers |-> {}, current_ts |-> NoTs,
   assign_new_leader |-> FALSE, attempt_num |-> 0, completions |-> 0,
   tablet |-> tablet, last |-> NoLast]

NoInvoker == Invoker(FALSE, FALSE, FALSE, RemoteTablet(NoTs, {}, FALSE))

\* The invoker without the record of the last handler.
InvokerFields(inv) == [inv EXCEPT !.last = NoLast]

\* RpcRetrier::DelayedRetry: schedules the command to run again, unless the
\* retrier refuses (its deadline has passed).
DelayedRetry(inv, accepts) ==
  IF accepts /\ inv.attempt_num < MaxRetries
  THEN [ok |-> TRUE, inv |-> [inv EXCEPT !.attempt_num = @ + 1, !.pc = "run"]]
  ELSE [ok |-> FALSE, inv |-> inv]

\* command_->Finished(status): the operation is completed with the status.
Finished(inv) == [inv EXCEPT !.pc = "done", !.completions = @ + 1]

\* SelectTabletServer keeping the cached leader whatever followers_ holds.
SelectTabletServer_KeepsLeader(inv, again) ==
  LET Guess(tablet, servers) ==
        LET free == SelectSeq(servers, LAMBDA ts : ts \notin inv.followers)
        IN [inv EXCEPT !.tablet = tablet,
                       !.current_ts = IF free # << >> THEN free[1] ELSE NoTs,
                       !.assign_new_leader = (free # << >>)]
      Demoted(tablet) == Guess(tablet, GetRemoteTabletServers(tablet, again))
      Select(leader) ==
        IF leader = NoTs THEN Demoted(inv.tablet)
        ELSE [inv EXCEPT !.current_ts = leader, !.assign_new_leader = FALSE]
  IN Select(LeaderTServer(inv.tablet))

\* TabletInvoker::SelectTabletServer
SelectTabletServer(inv, again) ==
  LET Guess(tablet, servers) ==
        LET free == SelectSeq(servers, LAMBDA ts : ts \notin inv.followers)
        IN [inv EXCEPT !.tablet = tablet,
                       !.current_ts = IF free # << >> THEN free[1] ELSE NoTs,
                       !.assign_new_leader = (free # << >>)]
      Demoted(tablet) == Guess(tablet, GetRemoteTabletServers(tablet, again))
      Select(leader) ==
        IF leader # NoTs /\ leader \in inv.followers
        THEN Demoted(MarkTServerAsFollower(inv.tablet, leader))
        ELSE IF leader = NoTs THEN Demoted(inv.tablet)
        ELSE [inv EXCEPT !.current_ts = leader, !.assign_new_leader = FALSE]
  IN Select(LeaderTServer(inv.tablet))

\* FailToNewReplica marking the replica failed whatever the error code is.
FailToNewReplica_MarksFailed(inv, reason, error_code, accepts) ==
  DelayedRetry([inv EXCEPT !.tablet = IF inv.has_tablet
                                      THEN MarkReplicaFailed(@, inv.current_ts) ELSE @],
               accepts)

\* TabletInvoker::FailToNewReplica; the result is that of DelayedRetry.
FailToNewReplica(inv, reason, error_code, accepts) ==
  IF error_code = "STALE_FOLLOWER" THEN DelayedRetry(inv, accepts)
  ELSE IF error_code = "NOT_THE_LEADER"
  THEN DelayedRetry([inv EXCEPT !.followers = @ \cup {inv.current_ts}], accepts)
  ELSE DelayedRetry([inv EXCEPT !.tablet = IF inv.has_tablet
                                           THEN MarkReplicaFailed(@, inv.current_ts) ELSE @],
                    accepts)

\* What a handler leaves: the invoker, what Done returns, whether a retry was
\* scheduled, whether command_->Finished was called, whether the RPC was sent.
Outcome(inv, ret, scheduled, finished, sent) ==
  [inv |-> inv, ret |-> ret, scheduled |-> scheduled, finished |-> finished, sent |-> sent]

\* TabletInvoker::Execute.  `in` holds the leader_only argument and what the
\* collaborators answer: whether the replicas cache is due for a refresh, the
\* failed replicas GetRemoteTabletServers gives another chance, the closest
\* replica SelectTServer picks, whether InitProxy succeeds and whether the
\* retrier accepts a retry.
InvokerExecute(inv, in) ==
  LET Failover(r) ==
        IF r.ok THEN Outcome(r.inv, FALSE, TRUE, FALSE, FALSE)
        ELSE Outcome(Finished(r.inv), FALSE, FALSE, TRUE, FALSE)
      Send(sel) ==
        IF sel.current_ts = NoTs
        THEN Outcome([sel EXCEPT !.pc = "lookup"], FALSE, FALSE, FALSE, FALSE)
        ELSE IF ~in.init_proxy_ok
        THEN Failover(FailToNewReplica(sel, "NetworkError", "UNKNOWN_ERROR", in.accepts))
        ELSE Outcome([sel EXCEPT !.pc = "sent"], FALSE, FALSE, FALSE, TRUE)
  IN IF ~inv.has_tablet
     THEN Outcome([inv EXCEPT !.pc = "initial_lookup"], FALSE, FALSE, FALSE, FALSE)
     ELSE IF inv.consistent_prefix /\ ~in.leader_only /\ in.refresh_cache
     THEN Outcome([inv EXCEPT !.pc = "lookup"], FALSE, FALSE, FALSE, FALSE)
     ELSE IF inv.local_tserver_only THEN Send([inv EXCEPT !.current_ts = LocalTs])
     ELSE IF inv.consistent_prefix /\ ~in.leader_only
     THEN Send([inv EXCEPT !.current_ts = in.closest])
     ELSE Send(SelectTabletServer(inv, in.again))

\* ErrorCode(rsp_err) and ErrorStatus(rsp_err) of a response error, "none"
\* being no error in the response.
ErrorCode(rsp_code) == IF rsp_code = "none" THEN "UNKNOWN_ERROR" ELSE rsp_code
ErrorStatus(rsp_code, rsp_status) == IF rsp_code = "none" THEN "OK" ELSE rsp_status

TabletNotFoundOnTServer(error_code, status) ==
  status = "NotFound" /\ error_code = "TABLET_NOT_FOUND"

\* Done completing the command itself and then returning true, when the
\* retrier refuses the retry of a failure that is not IllegalState.
Done_TrueAfterFinished(inv, in) ==
  LET cleared == [inv EXCEPT !.assign_new_leader = FALSE]
      code == ErrorCode(in.rsp_code)
      Return(i) == Outcome(i, TRUE, FALSE, FALSE, FALSE)
      Retried(r) ==
        IF r.ok THEN Outcome(r.inv, FALSE, TRUE, FALSE, FALSE)
        ELSE Outcome(r.inv, TRUE, FALSE, FALSE, FALSE)
      Delayed(r) ==
        IF r.ok THEN Outcome(r.inv, FALSE, TRUE, FALSE, FALSE)
        ELSE Outcome(Finished(r.inv), TRUE, FALSE, TRUE, FALSE)
      Retryable(i, status) ==
        IF i.local_tserver_only /\ i.current_ts = LocalTs /\ status = "IllegalState"
        THEN Return(i)
        ELSE IF status = "IllegalState" \/ TabletNotFoundOnTServer(code, status)
        THEN Retried(FailToNewReplica(i, status, code, in.accepts))
        ELSE Delayed(DelayedRetry(i, in.accepts))
      Classified(status) ==
        IF code = "TABLET_SPLIT" \/ status = "TablePartitionListIsStale"
        THEN Return([cleared EXCEPT !.tablet = IF code = "TABLET_SPLIT"
                                              THEN MarkAsSplit(@) ELSE @])
        ELSE IF \/ status \in {"IllegalState", "ServiceUnavailable", "Aborted",
                               "LeaderNotReadyToServe", "LeaderHasNoLease"}
                \/ TabletNotFoundOnTServer(code, status)
                \/ (status = "TimedOut" /\ in.before_deadline)
        THEN Retryable(IF code = "LEADER_NOT_READY_TO_SERVE" \/ status = "LeaderNotReadyToServe"
                       THEN cleared
                       ELSE [cleared EXCEPT !.followers = @ \cup {cleared.current_ts}],
                       status)
        ELSE IF status # "OK"
        THEN Return([cleared EXCEPT !.tablet =
                       IF status = "TimedOut" /\ cleared.has_tablet /\ cleared.current_ts # NoTs
                       THEN MarkReplicaFailed(@, cleared.current_ts) ELSE @])
        ELSE IF inv.assign_new_leader /\ cleared.current_ts # NoTs
        THEN Return([cleared EXCEPT !.tablet = MarkTServerAsLeader(@, cleared.current_ts)])
        ELSE Return(cleared)
      Response(status, resp_error_status) ==
        IF status = "NetworkError"
        THEN Retried(FailToNewReplica(cleared, status, "UNKNOWN_ERROR", in.accepts))
        ELSE Classified(IF status = "OK" /\ resp_error_status # "OK" THEN resp_error_status
                        ELSE IF status = "RemoteError" /\ resp_error_status # "OK"
                        THEN resp_error_status
                        ELSE IF status = "RemoteError"
                                /\ in.error_response \in {"FATAL_SERVER_SHUTTING_DOWN",
                                                          "ERROR_NO_SUCH_SERVICE"}
                        THEN "ServiceUnavailable"
                        ELSE status)
      Handled(r) ==
        IF r.ok THEN Outcome(r.inv, FALSE, TRUE, FALSE, FALSE)
        ELSE Response("TimedOut", ErrorStatus(in.rsp_code, in.rsp_status))
  IN IF in.status = "Aborted" \/ in.retrier_finished THEN Return(cleared)
     ELSE IF in.status = "OK" /\ in.controller = "RemoteError" /\ in.too_busy
     THEN Handled(DelayedRetry(cleared, in.accepts))
     ELSE Response(IF in.status = "OK" THEN in.controller ELSE in.status,
                   ErrorStatus(in.rsp_code, in.rsp_status))

\* TabletInvoker::Done.  `in` holds the status passed in, the controller's
\* status with whether it is a too-busy error and its error response code,
\* the response error (code and status), whether the retrier is finished,
\* whether the deadline is still ahead and whether the retrier accepts a retry.
Done(inv, in) ==
  LET cleared == [inv EXCEPT !.assign_new_leader = FALSE]
      code == ErrorCode(in.rsp_code)
      Return(i) == Outcome(i, TRUE, FALSE, FALSE, FALSE)
      Retried(r) ==
        IF r.ok THEN Outcome(r.inv, FALSE, TRUE, FALSE, FALSE)
        ELSE Outcome(r.inv, TRUE, FALSE, FALSE, FALSE)
      Delayed(r) ==
        IF r.ok THEN Outcome(r.inv, FALSE, TRUE, FALSE, FALSE)
        ELSE Outcome(Finished(r.inv), FALSE, FALSE, TRUE, FALSE)
      Retryable(i, status) ==
        IF i.local_tserver_only /\ i.current_ts = LocalTs /\ status = "IllegalState"
        THEN Return(i)
        ELSE IF status = "IllegalState" \/ TabletNotFoundOnTServer(code, status)
        THEN Retried(FailToNewReplica(i, status, code, in.accepts))
        ELSE Delayed(DelayedRetry(i, in.accepts))
      Classified(status) ==
        IF code = "TABLET_SPLIT" \/ status = "TablePartitionListIsStale"
        THEN Return([cleared EXCEPT !.tablet = IF code = "TABLET_SPLIT"
                                              THEN MarkAsSplit(@) ELSE @])
        ELSE IF \/ status \in {"IllegalState", "ServiceUnavailable", "Aborted",
                               "LeaderNotReadyToServe", "LeaderHasNoLease"}
                \/ TabletNotFoundOnTServer(code, status)
                \/ (status = "TimedOut" /\ in.before_deadline)
        THEN Retryable(IF code = "LEADER_NOT_READY_TO_SERVE" \/ status = "LeaderNotReadyToServe"
                       THEN cleared
                       ELSE [cleared EXCEPT !.followers = @ \cup {cleared.current_ts}],
                       status)
        ELSE IF status # "OK"
        THEN Return([cleared EXCEPT !.tablet =
                       IF status = "TimedOut" /\ cleared.has_tablet /\ cleared.current_ts # NoTs
                       THEN MarkReplicaFailed(@, cleared.current_ts) ELSE @])
        ELSE IF inv.assign_new_leader /\ cleared.current_ts # NoTs
        THEN Return([cleared EXCEPT !.tablet = MarkTServerAsLeader(@, cleared.current_ts)])
        ELSE Return(cleared)
      Response(status, resp_error_status) ==
        IF status = "NetworkError"
        THEN Retried(FailToNewReplica(cleared, status, "UNKNOWN_ERROR", in.accepts))
        ELSE Classified(IF status = "OK" /\ resp_error_status # "OK" THEN resp_error_status
                        ELSE IF status = "RemoteError" /\ resp_error_status # "OK"
                        THEN resp_error_status
                        ELSE IF status = "RemoteError"
                                /\ in.error_response \in {"FATAL_SERVER_SHUTTING_DOWN",
                                                          "ERROR_NO_SUCH_SERVICE"}
                        THEN "ServiceUnavailable"
                        ELSE status)
      Handled(r) ==
        IF r.ok THEN Outcome(r.inv, FALSE, TRUE, FALSE, FALSE)
        ELSE Response("TimedOut", ErrorStatus(in.rsp_code, in.rsp_status))
  IN IF in.status = "Aborted" \/ in.retrier_finished THEN Return(cleared)
     ELSE IF in.status = "OK" /\ in.controller = "RemoteError" /\ in.too_busy
     THEN Handled(DelayedRetry(cleared, in.accepts))
     ELSE Response(IF in.status = "OK" THEN in.controller ELSE in.status,
                   ErrorStatus(in.rsp_code, in.rsp_status))

\* TabletInvoker::LookupTabletCb
LookupTabletCb(inv, in) ==
  LET Retry(r) ==
        IF r.ok THEN Outcome(r.inv, FALSE, TRUE, FALSE, FALSE)
        ELSE Outcome(Finished(r.inv), FALSE, FALSE, TRUE, FALSE)
  IN IF in.result \in {"NotFound", "TablePartitionListIsStale"}
     THEN Outcome(Finished(inv), FALSE, FALSE, TRUE, FALSE)
     ELSE Retry(DelayedRetry([inv EXCEPT !.followers = {}], in.accepts))

\* TabletInvoker::InitialLookupTabletDone
InitialLookupTabletDone(inv, in) ==
  IF in.result = "OK"
  THEN InvokerExecute([inv EXCEPT !.has_tablet = TRUE, !.tablet = in.tablet],
               [in EXCEPT !.leader_only = FALSE])
  ELSE Outcome(Finished(inv), FALSE, FALSE, TRUE, FALSE)

StoreInit(seeds, flags, opsPerBatch, commits, faults) ==
  /\ ioError \in faults
  /\ readOp = NoReadOp
  /\ invoker = NoInvoker
  /\ hist \in {<<seed>> : seed \in seeds}
  /\ batch = EmptyBatch
  /\ emulate \in flags
  /\ lastOp = NoOp
  /\ nOps = 0
  /\ committed = [n |-> 0, op |-> NoOp]
  /\ maxOps = opsPerBatch
  /\ maxCommits = commits
  /\ lastRead = NoRead

\* The store reads never fail.
RedisInit(seeds, flags, opsPerBatch, commits) ==
  StoreInit(seeds, flags, opsPerBatch, commits, {FALSE})

vars == <<hist, batch, emulate, lastOp, nOps, committed, maxOps, maxCommits, lastRead, ioError, readOp, invoker>>

\* String commands, every operation in a batch of its own.
StrInit == RedisInit({EmptySnap}, {TRUE}, 1, MaxCommits)

StrNext ==
  \/ DoSetString \/ DoGetSet \/ DoAppend \/ DoSetRange \/ DoIncr
  \/ Commit
  \/ DoGet \/ DoStrLen \/ DoExists \/ DoGetRange \/ TakeResponse

SpecStr == StrInit /\ [][StrNext]_vars

\* String commands, several operations sharing one batch.
BatchInit == RedisInit({EmptySnap}, {TRUE}, MaxBatchOps, MaxCommits)

BatchNext ==
  \/ DoSetString \/ DoGetSet \/ DoAppend \/ DoSetRange \/ DoIncr
  \/ Commit \/ Abandon
  \/ DoGet \/ TakeResponse

SpecBatch == BatchInit /\ [][BatchNext]_vars

\* The store after one request is applied to an empty store.
SeedOf(r) == ApplyPuts(EmptySnap, r.b.puts)

SeedSet(kv) ==
  SeedOf(ApplySet(EmptySnap, EmptySnap, EmptyBatch, kv, "UPSERT", FALSE, NoOpts, TRUE, 0))

\* An absent key and a key of each type.
TypedSeeds ==
  {EmptySnap,
   SeedSet(KV(TheKey, "STRING", << >>, <<(<<"a">>)>>)),
   SeedSet(KV(TheKey, "HASH", <<StrSeg(<<"f">>)>>, <<(<<"7">>)>>)),
   SeedSet(KV(TheKey, "TIMESERIES", <<TsDescSeg(1)>>, <<(<<"a">>)>>)),
   SeedSet(ZAddKV(<<ZEntry(1, <<"m">>)>>)),
   SeedOf(ApplyAdd(EmptySnap, EmptySnap, EmptyBatch,
                   KV(TheKey, "SET", <<StrSeg(<<"m">>)>>, << >>), TRUE))}

\* Every command against a key of every type: one request, applied, then read.
TypeInit == RedisInit(TypedSeeds, BOOLEAN, 1, 1)

TypeNext ==
  \/ DoSetString \/ DoGetSet \/ DoAppend \/ DoSetRange \/ DoIncr
  \/ DoSetHash \/ DoZAdd \/ DoAdd \/ DoDel \/ DoSubDel \/ DoZRem
  \/ Commit
  \/ DoGet \/ DoStrLen \/ DoExists \/ DoGetCollection \/ DoGetRange \/ DoCollectionGetRange
  \/ TakeResponse

SpecType == TypeInit /\ [][TypeNext]_vars

\* The sorted sets one or two ZADD requests build on an absent key.
ZAddOn(snap, entries, opts) ==
  ApplyPuts(snap, ApplySet(snap, snap, EmptyBatch, ZAddKV(entries), "UPSERT", FALSE,
                           opts, TRUE, 0).b.puts)

ZSeedsOne == {ZAddOn(EmptySnap, entries, NoOpts) : entries \in ZEntryLists}

ZSeeds ==
  {EmptySnap} \cup ZSeedsOne
  \cup {ZAddOn(seed, entries, NoOpts) : seed \in ZSeedsOne, entries \in ZEntryLists}

\* Sorted-set commands: one request against a sorted set, applied, then read.
ZInit == RedisInit(ZSeeds, {TRUE}, 1, 1)

ZNext ==
  \/ DoZAdd \/ DoZRem \/ DoDel
  \/ Commit
  \/ DoGetCollection \/ DoCollectionGetRange \/ TakeResponse

SpecZ == ZInit /\ [][ZNext]_vars

\* Set commands, several sharing one batch, on an absent key and on a set.
SetSeeds ==
  {EmptySnap,
   SeedOf(ApplyAdd(EmptySnap, EmptySnap, EmptyBatch,
                   KV(TheKey, "SET", <<StrSeg(<<"m">>)>>, << >>), TRUE))}

SetBatchInit == RedisInit(SetSeeds, BOOLEAN, MaxBatchOps, 1)

SetBatchNext ==
  \/ DoAdd \/ DoSubDel
  \/ Commit \/ Abandon
  \/ DoGetCollection \/ TakeResponse

SpecSetBatch == SetBatchInit /\ [][SetBatchNext]_vars

\* Sorted-set adds, several sharing one batch.
ZBatchInit == RedisInit({EmptySnap}, {TRUE}, MaxBatchOps, 1)

ZBatchNext ==
  \/ DoZAdd
  \/ Commit \/ Abandon
  \/ DoGetCollection \/ TakeResponse

SpecZBatch == ZBatchInit /\ [][ZBatchNext]_vars

\* Requests that RedisWriteOperation::Apply rejects with a call status: a
\* string SET with a sub-key or with two values, a SET without sub-keys
\* declared as a hash, a GETSET with two values, an SADD without members.
MalformedRequests ==
  {[cmd |-> "SET", kv |-> KV(TheKey, "STRING", <<StrSeg(<<"f">>)>>, <<(<<"a">>)>>)],
   [cmd |-> "SET", kv |-> KV(TheKey, "STRING", << >>, <<(<<"a">>), (<<"b">>)>>)],
   [cmd |-> "SET", kv |-> KV(TheKey, "HASH", << >>, <<(<<"a">>)>>)],
   [cmd |-> "GETSET", kv |-> KV(TheKey, "STRING", << >>, <<(<<"a">>), (<<"b">>)>>)],
   [cmd |-> "SADD", kv |-> KV(TheKey, "SET", << >>, << >>)]}

DoMalformed ==
  /\ CanApply
  /\ \E t \in 1..Len(hist), r \in MalformedRequests, mode \in WriteModes :
       RecordWrite(r.cmd, r.kv, Args(mode, FALSE, NoOpts, 0, 0), t,
                   IF r.cmd = "SET"
                   THEN ApplySet(hist[t], Latest, batch, r.kv, mode, FALSE, NoOpts, emulate, 0)
                   ELSE IF r.cmd = "GETSET"
                   THEN ApplyGetSet(hist[t], Latest, batch, r.kv, 0)
                   ELSE ApplyAdd(hist[t], Latest, batch, r.kv, emulate))

\* Every write command against a key of every type, well-formed or not,
\* several sharing one batch.
RejectInit == RedisInit(TypedSeeds, BOOLEAN, MaxBatchOps, 1)

RejectNext ==
  \/ DoSetString \/ DoGetSet \/ DoAppend \/ DoSetRange \/ DoIncr
  \/ DoSetHash \/ DoZAdd \/ DoAdd \/ DoDel \/ DoSubDel \/ DoZRem
  \/ DoMalformed
  \/ Commit

SpecReject == RejectInit /\ [][RejectNext]_vars

\* -------------------------------------------------------- QL: state machine
\* QL statements run against the same store history and write batch; the
\* record of the last write keeps the QLWriteRequestPB in `kv`, the one of
\* the last read the QLReadRequestPB, and `args` of a read the rows of the
\* pages the caller has fetched before, the page number and the
\* restart-read hint.
QLHashed == <<1>>
QLRanges == {<<1>>, <<2>>}

Scalar(id, value) == ColumnValue(id, ConstExpr(value), "kScalarInsert", << >>)

\* Assignments of a statement that addresses a row, and of one that
\* addresses the static columns of a hash key.
RowAssignments ==
  {<< >>,
   <<Scalar("c", QLInt(1))>>,
   <<Scalar("c", QLInt(2))>>,
   <<Scalar("c", QLNull)>>,
   <<Scalar("s", QLInt(2)), Scalar("c", QLInt(1))>>,
   <<ColumnValue("c", RefExpr("c", 1), "kScalarInsert", << >>)>>,
   <<ColumnValue("m", ConstExpr(QLMap({[key |-> 1, val |-> 1]})), "kMapExtend", << >>)>>,
   <<ColumnValue("m", ConstExpr(QLInt(2)), "kScalarInsert", <<1>>)>>,
   <<ColumnValue("l", ConstExpr(QLList(<<1>>)), "kListAppend", << >>)>>,
   <<ColumnValue("l", ConstExpr(QLList(<<2>>)), "kListPrepend", << >>)>>,
   <<ColumnValue("m", ConstExpr(QLMap({[key |-> 1, val |-> 1]})), "kMapRemove", << >>)>>,
   <<ColumnValue("l", ConstExpr(QLList(<<1>>)), "kListRemove", << >>)>>,
   <<ColumnValue("l", ConstExpr(QLInt(2)), "kScalarInsert", <<0>>)>>,
   <<Scalar("c", QLInt(1)), ColumnValue("l", ConstExpr(QLInt(2)), "kScalarInsert", <<1>>)>>}

StaticAssignments == {<<Scalar("s", QLInt(1))>>, <<Scalar("s", QLInt(2))>>}

IfExists == Condition("EXISTS", "", 0)
IfNotExists == Condition("NOT_EXISTS", "", 0)

\* IF clauses: those of a statement on a row may refer to regular columns.
IfExprs(range) ==
  {<< >>, <<IfExists>>, <<IfNotExists>>, <<Condition("EQ", "s", 1)>>}
  \cup (IF range = << >> THEN {}
        ELSE {<<Condition("EQ", "c", 1)>>,
              <<And(<<Condition("EQ", "s", 1), Condition("EQ", "c", 1)>>)>>})

WhereExprs == {<< >>, <<Condition("EQ", "r", 1)>>, <<Condition("GE", "r", 2)>>}

\* The columns a condition refers to.
RECURSIVE ConditionRefs(_)
ConditionRefs(condition) ==
  IF condition.op \in {"EXISTS", "NOT_EXISTS"} THEN {}
  ELSE IF condition.op = "AND"
  THEN UNION {ConditionRefs(condition.operands[i]) : i \in 1..Len(condition.operands)}
  ELSE {condition.column_id}

\* column_refs as the analyzer fills it in: the columns of the IF and WHERE
\* clauses and of the assigned expressions.
RefsOf(column_values, if_expr, where_expr) ==
  LET all == UNION {ConditionRefs(e[1]) : e \in {if_expr, where_expr} \ {<< >>}}
             \cup {column_values[i].expr.ref[1] :
                     i \in {j \in 1..Len(column_values) : column_values[j].expr.ref # << >>}}
  IN ColumnRefs({id \in all : ~is_static(id)}, {id \in all : is_static(id)})

\* INSERT and UPDATE statements of either stmt type.
UpsertRequests(type) ==
  {QLWriteRequest(type, QLHashed, range, column_values, if_expr, << >>,
                  RefsOf(column_values, if_expr, << >>), has_user_timestamp) :
     range \in QLRanges, column_values \in RowAssignments, if_expr \in IfExprs(<<1>>),
     has_user_timestamp \in BOOLEAN}
  \cup {QLWriteRequest(type, QLHashed, << >>, column_values, if_expr, << >>,
                       RefsOf(column_values, if_expr, << >>), has_user_timestamp) :
          column_values \in StaticAssignments, if_expr \in IfExprs(<< >>),
          has_user_timestamp \in BOOLEAN}

\* DELETE statements: of columns, of a row, and of a range of rows.
DeleteRequests ==
  {QLWriteRequest("QL_STMT_DELETE", QLHashed, range, column_values, if_expr, << >>,
                  RefsOf(<< >>, if_expr, << >>), has_user_timestamp) :
     range \in QLRanges,
     column_values \in {<< >>, <<Scalar("c", QLNull)>>},
     if_expr \in IfExprs(<<1>>), has_user_timestamp \in BOOLEAN}
  \cup {QLWriteRequest("QL_STMT_DELETE", QLHashed, << >>, <<Scalar("s", QLNull)>>, if_expr,
                       << >>, RefsOf(<< >>, if_expr, << >>), has_user_timestamp) :
          if_expr \in IfExprs(<< >>), has_user_timestamp \in BOOLEAN}
  \cup {QLWriteRequest("QL_STMT_DELETE", QLHashed, << >>, << >>, << >>, where_expr,
                       RefsOf(<< >>, << >>, where_expr), has_user_timestamp) :
          where_expr \in WhereExprs, has_user_timestamp \in BOOLEAN}

\* What the caller learns of a write besides its response: the paths and
\* the isolation level it declared, and the restart-read hint.
Declared(request, t) ==
  [paths |-> GetDocPathsToLock(request).paths, level |-> GetDocPathsToLock(request).level,
   restart_read_ht |-> QLWriteRestartReadHt(hist, t, QLWriteScans(hist, t, request), 1, 0)]

\* QLWriteOperation::Init, GetDocPathsToLock and Apply, one action per
\* statement type; `args` of the record keeps what the caller learns.
\* An INSERT that writes through to the store as well.
DoQLInsert_WritesThrough ==
  /\ CanApply
  /\ \E t \in 1..Len(hist), request \in UpsertRequests("QL_STMT_INSERT") :
       LET Record(r) ==
             /\ batch' = r.b
             /\ hist' = [hist EXCEPT ![Len(hist)] = ApplyPuts(Latest, r.b.puts)]
             /\ lastOp' = [cmd |-> "QLWRITE", kv |-> request,
                           args |-> Declared(request, t), readT |-> t,
                           st |-> r.st, resp |-> r.resp, pre |-> batch]
             /\ nOps' = nOps + 1
             /\ lastRead' = NoRead
             /\ UNCHANGED <<emulate, committed, maxOps, maxCommits, ioError, readOp, invoker>>
       IN Record(QLWriteApply(hist[t], Latest, batch, request))

DoQLInsert ==
  /\ CanApply
  /\ \E t \in 1..Len(hist), request \in UpsertRequests("QL_STMT_INSERT") :
       RecordWrite("QLWRITE", request, Declared(request, t), t,
                   QLWriteApply(hist[t], Latest, batch, request))

DoQLUpdate ==
  /\ CanApply
  /\ \E t \in 1..Len(hist), request \in UpsertRequests("QL_STMT_UPDATE") :
       RecordWrite("QLWRITE", request, Declared(request, t), t,
                   QLWriteApply(hist[t], Latest, batch, request))

\* INSERT and UPDATE statements USING TTL.
DoQLUpsertTtl ==
  /\ CanApply
  /\ \E t \in 1..Len(hist), type \in {"QL_STMT_INSERT", "QL_STMT_UPDATE"} :
       \E plain \in UpsertRequests(type) :
         LET request == WithTtl(plain)
         IN RecordWrite("QLWRITE", request, Declared(request, t), t,
                        QLWriteApply(hist[t], Latest, batch, request))

\* INSERT and UPDATE statements that assign to an element of the list l of
\* the row (1, 1), alone or after an assignment to c.
ListSubscripts == {-1, 0, 1, 2}

ListElement(i, v) == ColumnValue("l", ConstExpr(QLInt(v)), "kScalarInsert", <<i>>)

ListReplaceRequests ==
  {QLWriteRequest(type, QLHashed, <<1>>, column_values, << >>, << >>,
                  ColumnRefs({}, {}), has_user_timestamp) :
     type \in {"QL_STMT_INSERT", "QL_STMT_UPDATE"},
     column_values \in {<<ListElement(i, 3)>> : i \in ListSubscripts}
                        \cup {<<Scalar("c", QLInt(1)), ListElement(i, 3)>> : i \in ListSubscripts},
     has_user_timestamp \in BOOLEAN}

DoQLListReplace ==
  /\ CanApply
  /\ \E t \in 1..Len(hist), request \in ListReplaceRequests :
       RecordWrite("QLWRITE", request, Declared(request, t), t,
                   QLWriteApply(hist[t], Latest, batch, request))

DoQLDelete ==
  /\ CanApply
  /\ \E t \in 1..Len(hist), request \in DeleteRequests :
       RecordWrite("QLWRITE", request, Declared(request, t), t,
                   QLWriteApply(hist[t], Latest, batch, request))

\* Reads: all columns, the regular columns only, the keys only, and the
\* distinct hash keys with or without the static column.
ReadShapes ==
  {[refs |-> ColumnRefs({"c"}, {"s"}), selected |-> <<"h", "r", "s", "c">>, distinct |-> FALSE],
   [refs |-> ColumnRefs({"c"}, {}), selected |-> <<"h", "r", "c">>, distinct |-> FALSE],
   [refs |-> ColumnRefs({}, {}), selected |-> <<"h", "r">>, distinct |-> FALSE],
   [refs |-> ColumnRefs({}, {"s"}), selected |-> <<"h", "s">>, distinct |-> TRUE],
   [refs |-> ColumnRefs({}, {}), selected |-> <<"h">>, distinct |-> TRUE]}

ReadWheres(shape) ==
  IF "c" \in shape.refs.ids THEN {<< >>, <<Condition("EQ", "c", 1)>>} ELSE {<< >>}

Limits == {<< >>, <<0>>, <<1>>, <<2>>}

QLReadRequests ==
  UNION {{QLReadRequest(hashed, where_expr, shape.refs, shape.selected, shape.distinct, limit,
                        is_aggregate, return_paging_state, << >>) :
            hashed \in {<< >>, QLHashed}, where_expr \in ReadWheres(shape), limit \in Limits,
            is_aggregate \in BOOLEAN, return_paging_state \in BOOLEAN} :
         shape \in ReadShapes}

Fetched(rows, page, restart_read_ht) ==
  [fetched |-> rows, page |-> page, restart_read_ht |-> restart_read_ht]

\* DoQLRead with the scan reading the newest store, whatever read time the
\* caller supplies.
DoQLRead_ReadsLatest ==
  /\ CanRead
  /\ \E t \in 1..Len(hist), request \in QLReadRequests :
       RecordRead("QLREAD", request, Fetched(<< >>, 1, QLReadRestartReadHt(hist, t, request)), t,
                  Execute(Latest, request))

\* QLReadOperation::Execute for a new statement.
DoQLRead ==
  /\ CanRead
  /\ \E t \in 1..Len(hist), request \in QLReadRequests :
       RecordRead("QLREAD", request, Fetched(<< >>, 1, QLReadRestartReadHt(hist, t, request)), t,
                  Execute(hist[t], request))

\* QLReadOperation::Execute for the statement resumed from the paging state
\* of the last response, at the read time the paging state carries.
DoQLResume ==
  /\ lastRead.cmd = "QLREAD"
  /\ lastRead.resp.paging_state # << >>
  /\ LET request == [lastRead.kv EXCEPT !.paging_state = lastRead.resp.paging_state]
     IN RecordRead("QLREAD", request,
                   Fetched(lastRead.args.fetched \o lastRead.resp.rows, lastRead.args.page + 1,
                           QLReadRestartReadHt(hist, lastRead.readT, request)),
                   lastRead.readT, Execute(hist[lastRead.readT], request))

\* The store after a statement is applied to it.
QLApplied(snap, request) ==
  ApplyPuts(snap, QLWriteApply(snap, snap, EmptyBatch, request).b.puts)

\* The stores built by applying, for each set of `choices` in turn, one of
\* its statements or none.
RECURSIVE SeedsFrom(_, _)
SeedsFrom(snaps, choices) ==
  IF choices = << >> THEN snaps
  ELSE SeedsFrom(snaps \cup {QLApplied(snap, request) : snap \in snaps, request \in choices[1]},
                 Tail(choices))

StaticWrite(h, v) ==
  QLWriteRequest("QL_STMT_UPDATE", <<h>>, << >>, <<Scalar("s", QLInt(v))>>, << >>, << >>,
                 ColumnRefs({}, {}), FALSE)

RowWrite(type, h, r, column_values) ==
  QLWriteRequest(type, <<h>>, <<r>>, column_values, << >>, << >>, ColumnRefs({}, {}), FALSE)

\* Stores for the writes: a static row, an inserted row, a row inserted or
\* only updated, a list, and a row of another hash key.
QLWriteSeeds ==
  SeedsFrom({EmptySnap},
            <<{StaticWrite(1, 1)},
              {RowWrite("QL_STMT_INSERT", 1, 1, <<Scalar("c", QLInt(v))>>) : v \in {1, 2}},
              {RowWrite("QL_STMT_INSERT", 1, 2, <<Scalar("c", QLInt(2))>>),
               RowWrite("QL_STMT_UPDATE", 1, 2, <<Scalar("c", QLInt(2))>>)},
              {RowWrite("QL_STMT_UPDATE", 1, 1,
                        <<ColumnValue("l", ConstExpr(QLList(<<1>>)), "kListAppend", << >>)>>)},
              {RowWrite("QL_STMT_INSERT", 2, 1, <<Scalar("c", QLInt(1))>>)}>>)

\* Stores for the reads: two hash keys, each with or without a static row
\* and with up to two rows.
QLReadSeeds ==
  SeedsFrom({EmptySnap},
            <<{StaticWrite(1, 1)}, {StaticWrite(2, 2)},
              {RowWrite("QL_STMT_INSERT", 1, 1, <<Scalar("c", QLInt(1))>>)},
              {RowWrite("QL_STMT_INSERT", 1, 2, <<Scalar("c", QLInt(2))>>)},
              {RowWrite("QL_STMT_INSERT", 2, 1, <<Scalar("c", QLInt(1))>>)},
              {RowWrite("QL_STMT_INSERT", 2, 2, <<Scalar("c", QLInt(2))>>)}>>)

\* QL writes: one statement against a table, applied.
QLWriteInit == RedisInit(QLWriteSeeds, {TRUE}, 1, 1)

QLWriteNext == DoQLInsert \/ DoQLUpdate \/ DoQLDelete \/ Commit

SpecQLWrite == QLWriteInit /\ [][QLWriteNext]_vars

\* QL inserts and updates, with and without a TTL, against an empty table
\* and a table with one row.
LivenessSeeds ==
  {EmptySnap, QLApplied(EmptySnap, RowWrite("QL_STMT_INSERT", 1, 1, <<Scalar("c", QLInt(1))>>))}

LivenessInit == RedisInit(LivenessSeeds, {TRUE}, 1, 1)

LivenessNext == DoQLInsert \/ DoQLUpdate \/ DoQLUpsertTtl \/ Commit

SpecLiveness == LivenessInit /\ [][LivenessNext]_vars

\* Assignments to list elements against a row (1, 1) with a list of up to two
\* elements, the reads of the store failing or not; two statements a batch.
ListSeeds ==
  SeedsFrom({EmptySnap},
            <<{RowWrite("QL_STMT_INSERT", 1, 1,
                        <<ColumnValue("l", ConstExpr(QLList(<<1>>)), "kListAppend", << >>)>>)},
              {RowWrite("QL_STMT_UPDATE", 1, 1,
                        <<ColumnValue("l", ConstExpr(QLList(<<2>>)), "kListAppend", << >>)>>)}>>)

ListReplaceInit == StoreInit(ListSeeds, {TRUE}, MaxBatchOps, 1, BOOLEAN)

ListReplaceNext == DoQLListReplace \/ Commit

SpecListReplace == ListReplaceInit /\ [][ListReplaceNext]_vars

\* QL reads: one statement against a table, fetched page by page.
QLReadInit == RedisInit(QLReadSeeds, {TRUE}, 1, 1)

QLReadNext == DoQLRead \/ DoQLResume \/ TakeResponse

SpecQLRead == QLReadInit /\ [][QLReadNext]_vars

\* QL reads at a read time after which the static row of hash key 1 was
\* written: the stores of the reads, each followed by that write.
LimitInit ==
  /\ ioError = FALSE
  /\ readOp = NoReadOp
  /\ invoker = NoInvoker
  /\ hist \in {<<seed, QLApplied(seed, StaticWrite(1, 2))>> : seed \in QLReadSeeds}
  /\ batch = EmptyBatch
  /\ emulate = TRUE
  /\ lastOp = NoOp
  /\ nOps = 0
  /\ committed = [n |-> 1, op |-> NoOp]
  /\ maxOps = 1
  /\ maxCommits = Len(hist)
  /\ lastRead = NoRead

LimitNext == DoQLRead \/ DoQLResume \/ TakeResponse

SpecLimit == LimitInit /\ [][LimitNext]_vars

\* QL writes sharing batches that the caller applies or abandons, against an
\* empty table and a table with one row.
AbandonSeeds ==
  {EmptySnap, QLApplied(EmptySnap, RowWrite("QL_STMT_INSERT", 1, 1, <<Scalar("c", QLInt(1))>>))}

AbandonInit == RedisInit(AbandonSeeds, {TRUE}, MaxBatchOps, 1)

AbandonNext ==
  \/ DoQLInsert \/ DoQLDelete
  \/ Commit \/ Abandon
  \/ DoQLRead \/ DoQLResume \/ TakeResponse

SpecAbandon == AbandonInit /\ [][AbandonNext]_vars

\* Reads and writes at a read time after which another batch was applied:
\* a hash key with a static row and two rows, then a write to the static
\* row or to one of the rows.
RestartBase ==
  QLApplied(QLApplied(QLApplied(EmptySnap, StaticWrite(1, 1)),
                      RowWrite("QL_STMT_INSERT", 1, 1, <<Scalar("c", QLInt(1))>>)),
            RowWrite("QL_STMT_INSERT", 1, 2, <<Scalar("c", QLInt(2))>>))

RestartWrites ==
  {StaticWrite(1, 2),
   RowWrite("QL_STMT_UPDATE", 1, 1, <<Scalar("c", QLInt(2))>>),
   RowWrite("QL_STMT_UPDATE", 1, 2, <<Scalar("c", QLInt(1))>>)}

RestartInit ==
  /\ ioError = FALSE
  /\ readOp = NoReadOp
  /\ invoker = NoInvoker
  /\ hist \in {<<RestartBase, QLApplied(RestartBase, request)>> : request \in RestartWrites}
  /\ batch = EmptyBatch
  /\ emulate = TRUE
  /\ lastOp = NoOp
  /\ nOps = 0
  /\ committed = [n |-> 1, op |-> NoOp]
  /\ maxOps = 1
  /\ maxCommits = Len(hist)
  /\ lastRead = NoRead

RestartNext ==
  \/ DoQLUpdate \/ DoQLDelete \/ Abandon
  \/ DoQLRead \/ DoQLResume \/ TakeResponse

SpecRestart == RestartInit /\ [][RestartNext]_vars


\* --------------------------------------------- client: partition key spec
\* Hash codes of requests and paging states: the ends of the 16-bit range,
\* the hash codes of the hashed column values 0 and 1, and one between.
HashCodes == {0, 1, 2^8, 2^8 + 1, 2^16 - 1}

ClientPagingStates ==
  {<< >>, <<PagingState(FALSE, << >>)>>, <<PagingState(TRUE, << >>)>>}
    \cup {<<PagingState(TRUE, EncodeMultiColumnHashValue(h))>> : h \in HashCodes}

ClientReadRequests ==
  {ClientReadRequest(hashed, lower # << >>, IF lower # << >> THEN lower[1] ELSE 0,
                     upper # << >>, IF upper # << >> THEN upper[1] ELSE 0, paging_state) :
     hashed \in {<< >>, <<0>>, <<1>>},
     lower \in {<< >>} \cup {<<h>> : h \in HashCodes},
     upper \in {<< >>} \cup {<<h>> : h \in HashCodes},
     paging_state \in ClientPagingStates}

\* A YBqlReadOp with its request built, and no docdb operation under way.
PartitionInit ==
  /\ ioError = FALSE
  /\ invoker = NoInvoker
  /\ readOp \in {[NoReadOp EXCEPT !.pre = request, !.request = request] :
                   request \in ClientReadRequests}
  /\ hist = <<EmptySnap>>
  /\ batch = EmptyBatch
  /\ emulate = TRUE
  /\ lastOp = NoOp
  /\ nOps = 0
  /\ committed = [n |-> 0, op |-> NoOp]
  /\ maxOps = 0
  /\ maxCommits = 0
  /\ lastRead = NoRead

\* YBqlReadOp::GetPartitionKey, called once on the request.
DoGetPartitionKey ==
  /\ ~readOp.called
  /\ LET Record(r) ==
           readOp' = [called |-> TRUE, st |-> r.st, partition_key |-> r.partition_key,
                      pre |-> readOp.request, request |-> r.request]
     IN Record(GetPartitionKey(readOp.request))
  /\ UNCHANGED <<hist, batch, emulate, lastOp, nOps, committed, maxOps, maxCommits, lastRead, ioError, invoker>>

PartitionNext == DoGetPartitionKey

SpecPartition == PartitionInit /\ [][PartitionNext]_vars

\* ------------------------------------------------ TabletInvoker: state machine
\* The response errors a tablet server sends, as error code and status.
ResponseErrors ==
  {<<"none", "OK">>,
   <<"NOT_THE_LEADER", "IllegalState">>,
   <<"STALE_FOLLOWER", "IllegalState">>,
   <<"LEADER_NOT_READY_TO_SERVE", "LeaderNotReadyToServe">>,
   <<"LEADER_NOT_READY_TO_SERVE", "ServiceUnavailable">>,
   <<"LEADER_NOT_READY_TO_SERVE", "LeaderHasNoLease">>,
   <<"TABLET_NOT_FOUND", "NotFound">>,
   <<"TABLET_SPLIT", "IllegalState">>,
   <<"UNKNOWN_ERROR", "TimedOut">>,
   <<"UNKNOWN_ERROR", "TablePartitionListIsStale">>,
   <<"UNKNOWN_ERROR", "AlreadyPresent">>}

DoneInput(status, controller, too_busy, error_response, rsp, finished, before, accepts) ==
  [status |-> status, controller |-> controller, too_busy |-> too_busy,
   error_response |-> error_response, rsp_code |-> rsp[1], rsp_status |-> rsp[2],
   retrier_finished |-> finished, before_deadline |-> before, accepts |-> accepts]

\* What Done is called with: a call that got a response, with or without a
\* response error; a call the server rejected (RemoteError); a call that
\* failed on the way; an aborted call; a finished retrier.
DoneInputs ==
  {DoneInput("OK", "OK", FALSE, "none", rsp, FALSE, before, accepts) :
     rsp \in ResponseErrors, before \in BOOLEAN, accepts \in BOOLEAN}
  \cup {DoneInput("OK", "RemoteError", too_busy, error_response, <<"none", "OK">>, FALSE,
                  before, accepts) :
          too_busy \in BOOLEAN,
          error_response \in {"none", "FATAL_SERVER_SHUTTING_DOWN"},
          before \in BOOLEAN, accepts \in BOOLEAN}
  \cup {DoneInput("OK", "RemoteError", FALSE, "none", <<"NOT_THE_LEADER", "IllegalState">>,
                  FALSE, before, accepts) :
          before \in BOOLEAN, accepts \in BOOLEAN}
  \cup {DoneInput("OK", controller, FALSE, "none", <<"none", "OK">>, FALSE, before, accepts) :
          controller \in {"NetworkError", "TimedOut", "Aborted", "ServiceUnavailable"},
          before \in BOOLEAN, accepts \in BOOLEAN}
  \cup {DoneInput("Aborted", "OK", FALSE, "none", <<"none", "OK">>, FALSE, TRUE, TRUE),
        DoneInput("OK", "OK", FALSE, "none", <<"none", "OK">>, TRUE, TRUE, TRUE)}

\* The deadline matters to Done only for a TimedOut status.
DoneInputsUsed ==
  {in \in DoneInputs :
     \/ in.before_deadline
     \/ "TimedOut" \in {in.controller, in.rsp_status}
     \/ in.too_busy}

ExecuteInput(leader_only, refresh_cache, again, closest, init_proxy_ok, accepts) ==
  [leader_only |-> leader_only, refresh_cache |-> refresh_cache, again |-> again,
   closest |-> closest, init_proxy_ok |-> init_proxy_ok, accepts |-> accepts]

\* What Execute can be called with on the invoker: leader_only, the refresh
\* of the cache and the closest replica matter to consistent-prefix reads
\* only, the failed replicas given another chance to SelectTabletServer only,
\* and the retrier is asked only when InitProxy fails.
ExecuteInputs(inv) ==
  {in \in {ExecuteInput(leader_only, refresh_cache, again, closest, init_proxy_ok, accepts) :
             leader_only \in IF inv.consistent_prefix THEN BOOLEAN ELSE {TRUE},
             refresh_cache \in IF inv.consistent_prefix THEN BOOLEAN ELSE {FALSE},
             again \in {{}, inv.tablet.failed},
             closest \in IF inv.consistent_prefix
                         THEN (Replicas \ inv.tablet.failed) \cup {NoTs} ELSE {NoTs},
             init_proxy_ok \in BOOLEAN, accepts \in BOOLEAN} :
     /\ in.init_proxy_ok => in.accepts
     /\ in.leader_only => (~in.refresh_cache /\ in.closest = NoTs)
     /\ (inv.local_tserver_only \/ ~in.leader_only) => in.again = {}}

RemoteTablets ==
  {RemoteTablet(leader, failed, FALSE) :
     leader \in Replicas \cup {NoTs}, failed \in SUBSET Replicas}

\* A handler ran: the invoker it leaves, with the record of what it did.
RecordHandler(op, in, o) ==
  /\ invoker' = [o.inv EXCEPT !.last = [op |-> op, in |-> in, ret |-> o.ret,
                                        scheduled |-> o.scheduled, finished |-> o.finished,
                                        sent |-> o.sent, pre |-> InvokerFields(invoker)]]
  /\ UNCHANGED <<hist, batch, emulate, lastOp, nOps, committed, maxOps, maxCommits, lastRead, ioError, readOp>>

\* The command runs (first, or as the retry the retrier scheduled) and calls
\* Execute.
DoExecute ==
  /\ invoker.pc = "run"
  /\ \E in \in ExecuteInputs(invoker) :
       RecordHandler("Execute", in, InvokerExecute(InvokerFields(invoker), in))

\* The caller of Done completes the operation when Done returns true.
CallerOf(o) ==
  IF o.ret THEN [o EXCEPT !.inv = [@ EXCEPT !.pc = "done", !.completions = @ + 1]] ELSE o

\* The call to the tablet server ends, and the command calls Done.
DoDone ==
  /\ invoker.pc = "sent"
  /\ \E in \in DoneInputsUsed :
       RecordHandler("Done", in, CallerOf(Done(InvokerFields(invoker), in)))

\* The master lookup Execute issued ends.
DoLookupTabletCb ==
  /\ invoker.pc = "lookup"
  /\ \E result \in {"OK", "NotFound", "TablePartitionListIsStale", "TimedOut"},
        accepts \in BOOLEAN :
       LET in == [result |-> result, accepts |-> accepts]
       IN RecordHandler("LookupTabletCb", in, LookupTabletCb(InvokerFields(invoker), in))

\* The lookup of an invoker built without a tablet ends.
DoInitialLookupTabletDone ==
  /\ invoker.pc = "initial_lookup"
  /\ \E result \in {"OK", "NotFound"}, tablet \in RemoteTablets, again \in SUBSET Replicas,
        init_proxy_ok \in BOOLEAN, accepts \in BOOLEAN :
       /\ again \subseteq tablet.failed
       /\ result = "NotFound" => (tablet = invoker.tablet /\ again = {} /\ init_proxy_ok /\ accepts)
       /\ LET in == [result |-> result, tablet |-> tablet,
                     leader_only |-> FALSE, refresh_cache |-> FALSE, again |-> again,
                     closest |-> NoTs, init_proxy_ok |-> init_proxy_ok, accepts |-> accepts]
          IN RecordHandler("InitialLookupTabletDone", in,
                           InitialLookupTabletDone(InvokerFields(invoker), in))

\* Another RPC of the batcher, or a refresh from the master, changes the
\* shared RemoteTablet while the command is under way.
OtherRpc ==
  /\ invoker.pc \in {"sent", "lookup"}
  /\ invoker.has_tablet
  /\ \E tablet \in {MarkReplicaFailed(invoker.tablet, ts) : ts \in Replicas}
                   \cup {MarkTServerAsLeader(invoker.tablet, ts) : ts \in Replicas}
                   \cup {[invoker.tablet EXCEPT !.failed = {}]} :
       /\ tablet # invoker.tablet
       /\ invoker' = [invoker EXCEPT !.tablet = tablet, !.last = [NoLast EXCEPT !.op = "OtherRpc"]]
  /\ UNCHANGED <<hist, batch, emulate, lastOp, nOps, committed, maxOps, maxCommits, lastRead, ioError, readOp>>

\* An invoker just built, for a tablet in any state of its replicas or for
\* a tablet still to be looked up, and no docdb operation under way.
InvokerInit ==
  /\ invoker \in {Invoker(TRUE, flags[1], flags[2], tablet) :
                    flags \in {<<FALSE, FALSE>>, <<TRUE, FALSE>>, <<FALSE, TRUE>>},
                    tablet \in RemoteTablets}
                 \cup {Invoker(FALSE, FALSE, FALSE, RemoteTablet(NoTs, {}, FALSE))}
  /\ ioError = FALSE
  /\ readOp = NoReadOp
  /\ hist = <<EmptySnap>>
  /\ batch = EmptyBatch
  /\ emulate = TRUE
  /\ lastOp = NoOp
  /\ nOps = 0
  /\ committed = [n |-> 0, op |-> NoOp]
  /\ maxOps = 0
  /\ maxCommits = 0
  /\ lastRead = NoRead

InvokerNext ==
  \/ DoExecute \/ DoDone \/ DoLookupTabletCb \/ DoInitialLookupTabletDone
  \/ OtherRpc

SpecInvoker == InvokerInit /\ [][InvokerNext]_vars

\* The reactor runs every scheduled retry, every call ends with a response or
\* a failure status, and every lookup calls its callback.
SpecInvokerFair ==
  /\ SpecInvoker
  /\ WF_vars(DoExecute)
  /\ WF_vars(DoDone)
  /\ WF_vars(DoLookupTabletCb)
  /\ WF_vars(DoInitialLookupTabletDone)

\* ------------------------------------------------------------- properties
StringKV == KV(TheKey, "STRING", << >>, << >>)

\* GET as of one snapshot.
GetOf(snap) == ExecuteGet(snap, StringKV, "GET", EmptyStr)

\* The batch applied last consisted of exactly one SET without sub-keys in
\* upsert mode.
CommittedUpsert ==
  /\ committed.n = 1
  /\ committed.op.cmd = "SET"
  /\ Len(committed.op.kv.subkeys) = 0
  /\ committed.op.args.mode = "UPSERT"

\* C1: after SET(k, v1) in upsert mode is applied to the store, GET(k)
\* returns v1 with code OK; a subsequent APPEND(k, v2) responds with
\* len(v1) + len(v2), and once it is applied GET(k) returns v1 followed by v2.
C1_SetGetAppend ==
  /\ (CommittedUpsert /\ lastRead.cmd = "GET" /\ lastRead.readT = Len(hist)
        => /\ lastRead.st = "OK"
           /\ lastRead.resp.code = "OK"
           /\ lastRead.resp.has_str
           /\ lastRead.resp.str = committed.op.kv.values[1])
  /\ (CommittedUpsert /\ nOps = 1 /\ lastOp.cmd = "APPEND" /\ lastOp.readT = Len(hist)
        => /\ lastOp.st = "OK"
           /\ lastOp.resp.has_int
           /\ lastOp.resp.int = Len(committed.op.kv.values[1]) + Len(lastOp.kv.values[1])
           /\ GetOf(Applied(batch)).resp.code = "OK"
           /\ GetOf(Applied(batch)).resp.str
                = committed.op.kv.values[1] \o lastOp.kv.values[1])

C1_Witness ==
  /\ CommittedUpsert
  /\ nOps = 1
  /\ lastOp.cmd = "APPEND"
  /\ lastOp.readT = Len(hist)
  /\ Len(committed.op.kv.values[1]) > 0
  /\ lastOp.resp.int = 3


\* The store as an operation of the current batch ought to see it: the
\* snapshot with the writes pending in `pre` laid over it.
PendingView(pre) == ApplyPuts(Latest, pre.puts)

\* What an operation answers when it is run against a given view of the store.
AnswerOn(view, op) ==
  IF op.cmd = "APPEND" THEN ApplyAppend(view, view, EmptyBatch, op.kv, EmptyStr)
  ELSE IF op.cmd = "GETSET" THEN ApplyGetSet(view, view, EmptyBatch, op.kv, EmptyStr)
  ELSE IF op.cmd = "SETRANGE"
  THEN ApplySetRange(view, view, EmptyBatch, op.kv, op.args.offset, EmptyStr)
  ELSE ApplyIncr(view, view, EmptyBatch, op.kv, op.args.incr, EmptyStr)

\* C2: a command that follows another write to the same key in one batch
\* (APPEND, INCR, GETSET or SETRANGE after a pending write) answers from the
\* pending value, not from the value still in the store, and leaves the key
\* holding the value computed from the pending one; and a SET that succeeded is
\* what GET returns once the batch is applied.
C2_BatchCoherence ==
  LET view == PendingView(lastOp.pre)
      followsPending == /\ nOps >= 2
                        /\ lastOp.cmd \in {"APPEND", "GETSET", "SETRANGE", "INCR"}
                        /\ lastOp.readT = Len(hist)
                        /\ GetOf(view).resp.code = "OK"
      setDone == /\ nOps >= 1
                 /\ lastOp.cmd = "SET"
                 /\ lastOp.st = "OK"
                 /\ lastOp.resp.code = "OK"
  IN /\ (followsPending
           => (/\ lastOp.resp = AnswerOn(view, lastOp).resp
               /\ GetOf(Applied(batch)).resp
                    = GetOf(ApplyPuts(view, AnswerOn(view, lastOp).b.puts)).resp))
     /\ (setDone
           => (/\ GetOf(Applied(batch)).resp.code = "OK"
               /\ GetOf(Applied(batch)).resp.str = lastOp.kv.values[1]))

\* A decimal rendering of a signed 64-bit integer: an optional minus sign and
\* at least one digit, nothing else, the number within the int64 range.
IsInt64Text(str) ==
  LET neg == Len(str) > 0 /\ str[1] = "-"
      body == IF neg THEN Tail(str) ELSE str
      mag == DigitsValue(body, 0)
  IN /\ Len(body) > 0
     /\ \A i \in 1..Len(body) : IsDigit(body[i])
     /\ (IF neg THEN 0 - mag ELSE mag) \in Int64Min..Int64Max

Int64OfText(str) ==
  IF str[1] = "-" THEN 0 - DigitsValue(Tail(str), 0) ELSE DigitsValue(str, 0)

\* The string the key holds at the read time of the last operation.
HeldBefore == GetOf(hist[lastOp.readT]).resp

\* C3: INCR on a key holding a string that is not a signed 64-bit integer, or
\* whose sum with the delta leaves the int64 range, returns status OK with the
\* error message set and no integer response, and appends nothing to the batch.
C3_IncrRejects ==
  LET rejected == /\ nOps = 1
                  /\ lastOp.cmd = "INCR"
                  /\ HeldBefore.code = "OK"
                  /\ \/ ~IsInt64Text(HeldBefore.str)
                     \/ Int64OfText(HeldBefore.str) + lastOp.args.incr
                          \notin Int64Min..Int64Max
  IN rejected => (/\ lastOp.st = "OK"
                  /\ lastOp.resp.err # ""
                  /\ ~lastOp.resp.has_int
                  /\ batch = lastOp.pre)


\* The collection type a key holds in a snapshot, by its top-level entry.
StoredType(snap) ==
  IF DocKeyFromRedisKey(TheKey) \notin DOMAIN snap THEN "NONE"
  ELSE LET vt == snap[DocKeyFromRedisKey(TheKey)].vt
       IN IF vt = "kObject" THEN "HASH"
          ELSE IF vt = "kRedisSet" THEN "SET"
          ELSE IF vt = "kRedisTS" THEN "TIMESERIES"
          ELSE IF vt = "kRedisSortedSet" THEN "SORTEDSET"
          ELSE "STRING"

\* The type a command expects its key to hold ("NONE": no expectation).
ExpectedByWrite(op) ==
  IF op.cmd \in {"SET", "GETSET", "APPEND", "SETRANGE", "INCR"} THEN "STRING"
  ELSE IF op.cmd \in {"HSET", "SUBDEL"} THEN op.kv.type
  ELSE IF op.cmd \in {"ZADD", "ZREM"} THEN "SORTEDSET"
  ELSE IF op.cmd = "SADD" THEN "SET"
  ELSE "NONE"

ExpectedByRead(rd) ==
  IF rd.cmd \in {"GET", "STRLEN", "GETRANGE"} THEN "STRING"
  ELSE IF rd.cmd \in {"HGET", "HGETALL", "HKEYS", "HVALS", "HLEN"} THEN "HASH"
  ELSE IF rd.cmd \in {"SMEMBERS", "SCARD"} THEN "SET"
  ELSE IF rd.cmd \in {"ZCARD", "ZRANGEBYSCORE"} THEN "SORTEDSET"
  ELSE IF rd.cmd = "TSRANGEBYTIME" THEN "TIMESERIES"
  ELSE "NONE"

\* C4: a command that expects a collection type, executed against a key
\* whose stored type is not NONE and differs from the expected one, returns
\* status OK with response code WRONG_TYPE.
C4_WrongType ==
  LET writeMismatch == /\ nOps = 1
                       /\ ExpectedByWrite(lastOp) # "NONE"
                       /\ StoredType(hist[lastOp.readT])
                            \notin {"NONE", ExpectedByWrite(lastOp)}
      readMismatch == /\ lastRead.cmd # "none"
                      /\ ExpectedByRead(lastRead) # "NONE"
                      /\ StoredType(hist[lastRead.readT])
                           \notin {"NONE", ExpectedByRead(lastRead)}
  IN /\ (writeMismatch => (lastOp.st = "OK" /\ lastOp.resp.code = "WRONG_TYPE"))
     /\ (readMismatch => (lastRead.st = "OK" /\ lastRead.resp.code = "WRONG_TYPE"))

\* Sorted-set views of a snapshot: the members of the reverse map, a
\* member's score and the stored cardinality counter.
MembersOf(snap) ==
  {p[3].s : p \in {q \in DOMAIN snap : /\ Len(q) = 3
                                       /\ q[1] = StrSeg(TheKey)
                                       /\ q[2] = kSSReverse}}

ScoreOf(snap, member) == snap[<<StrSeg(TheKey), kSSReverse, StrSeg(member)>>].n

CounterOf(snap) ==
  IF <<StrSeg(TheKey), kCounter>> \in DOMAIN snap
  THEN snap[<<StrSeg(TheKey), kCounter>>].n ELSE 0

\* The mutations the last operation appended to the batch.
AppendedBy(op) == SubSeq(batch.puts, Len(op.pre.puts) + 1, Len(batch.puts))

RequestMembers(kv) == {kv.values[i] : i \in 1..Len(kv.values)}

\* C5: ZADD with NX appends no mutation for a member already in the set (no
\* forward tombstone, no forward or reverse entry); ZADD with XX appends no
\* entry for a member not in the set and never raises the cardinality counter.
C5_NxXx ==
  LET before == hist[lastOp.readT]
      puts == AppendedBy(lastOp)
      touches(member) == {i \in 1..Len(puts) :
                            puts[i].path[Len(puts[i].path)] = StrSeg(member)}
      raises == {i \in 1..Len(puts) : /\ puts[i].path = <<StrSeg(TheKey), kCounter>>
                                      /\ puts[i].val.n > CounterOf(before)}
      isZAdd(u) == /\ nOps >= 1
                   /\ lastOp.cmd = "ZADD"
                   /\ lastOp.args.opts.update_options = u
  IN /\ (isZAdd("NX")
           => \A member \in RequestMembers(lastOp.kv) \cap MembersOf(before) :
                touches(member) = {})
     /\ (isZAdd("XX")
           => (/\ \A member \in RequestMembers(lastOp.kv) \ MembersOf(before) :
                    touches(member) = {}
               /\ raises = {}))

\* A ZADD NX naming a member that is in the set with another score, and one
\* that is not in the set yet.
C5_Witness ==
  /\ nOps = 1
  /\ lastOp.cmd = "ZADD"
  /\ lastOp.args.opts.update_options = "NX"
  /\ lastOp.readT = Len(hist)
  /\ Len(lastOp.kv.values) = 2
  /\ lastOp.kv.values[1] \in MembersOf(Latest)
  /\ ScoreOf(Latest, lastOp.kv.values[1]) # lastOp.kv.subkeys[1].n
  /\ lastOp.kv.values[2] \notin MembersOf(Latest)
  /\ lastOp.kv.values[2] \in MembersOf(Applied(batch))

ZCardOf(snap) == ExecuteGet(snap, KV(TheKey, "NONE", << >>, << >>), "ZCARD", EmptyStr)

\* C6: on a sorted set built from an absent key by adds of new members only,
\* one more add of distinct new members leaves the stored cardinality counter,
\* and so ZCARD, at the number of members added, however the members are
\* grouped into commands.
C6_CardinalityCounts ==
  LET view == PendingView(lastOp.pre)
      after == Applied(batch)
      members == lastOp.kv.values
      addsNew == /\ nOps >= 1
                 /\ lastOp.cmd = "ZADD"
                 /\ lastOp.args.opts = NoOpts
                 /\ lastOp.readT = Len(hist)
                 /\ CounterOf(view) = Cardinality(MembersOf(view))
                 /\ Cardinality(RequestMembers(lastOp.kv)) = Len(members)
                 /\ RequestMembers(lastOp.kv) \cap MembersOf(view) = {}
  IN addsNew => (/\ CounterOf(after) = Cardinality(MembersOf(view)) + Len(members)
                 /\ ZCardOf(after).resp.has_int
                 /\ ZCardOf(after).resp.int = Cardinality(MembersOf(view)) + Len(members))

\* C7: after a DEL of any declared type on a key with no stored value is
\* applied, GET does not answer WRONG_TYPE and EXISTS answers 0.
C7_DelOnAbsentKey ==
  LET deleted == /\ committed.n = 1
                 /\ committed.op.cmd \in {"DEL", "SUBDEL", "ZREM"}
                 /\ StoredType(hist[committed.op.readT]) = "NONE"
                 /\ lastRead.readT = Len(hist)
  IN /\ (deleted /\ lastRead.cmd = "GET" => lastRead.resp.code # "WRONG_TYPE")
     /\ (deleted /\ lastRead.cmd = "EXISTS"
           => (lastRead.resp.has_int /\ lastRead.resp.int = 0))

\* What is stored for a column under a doc key: << >> when nothing is.
StoredAt(snap, doc_key, id) ==
  IF Encode(doc_key) \o <<ColumnSeg(id)>> \in DOMAIN snap
  THEN <<snap[Encode(doc_key) \o <<ColumnSeg(id)>>].n>>
  ELSE << >>

\* The row a conditional write is about, as its pre-image in a snapshot:
\* the row of the primary key when the statement gives one (it exists when
\* its liveness marker or a referenced regular column is stored), else the
\* static row of the hash key (it exists when a referenced static column is
\* stored).
PreImage(snap, request) ==
  LET pk == DocKey(request.hashed_column_values, request.range_column_values)
      hk == DocKey(request.hashed_column_values, << >>)
      refs == request.column_refs
      exists ==
        IF request.range_column_values # << >>
        THEN \/ Encode(pk) \o <<kLivenessColumn>> \in DOMAIN snap
             \/ \E id \in refs.ids : StoredAt(snap, pk, id) # << >>
        ELSE \E id \in refs.static_ids : StoredAt(snap, hk, id) # << >>
      valueOf(id) == IF is_static(id) THEN StoredAt(snap, hk, id) ELSE StoredAt(snap, pk, id)
  IN [exists |-> exists,
      columns |-> [i \in 1..Len(ProjectionOf(refs.static_ids \cup refs.ids)) |->
                     [id |-> ProjectionOf(refs.static_ids \cup refs.ids)[i],
                      value |-> valueOf(ProjectionOf(refs.static_ids \cup refs.ids)[i])]]]

\* The IF predicate on the pre-image.
RECURSIVE HoldsOn(_, _)
HoldsOn(condition, pre) ==
  IF condition.op = "EXISTS" THEN pre.exists
  ELSE IF condition.op = "NOT_EXISTS" THEN ~pre.exists
  ELSE IF condition.op = "AND"
  THEN \A i \in 1..Len(condition.operands) : HoldsOn(condition.operands[i], pre)
  ELSE /\ pre.exists
       /\ \E i \in 1..Len(pre.columns) :
            /\ pre.columns[i].id = condition.column_id
            /\ pre.columns[i].value = <<condition.value>>

ConditionalWrite == nOps = 1 /\ lastOp.cmd = "QLWRITE" /\ lastOp.kv.if_expr # << >>

\* C8: a conditional write whose IF predicate is false on the pre-image
\* appends nothing to the batch and returns one row with [applied] = false,
\* followed by the referenced static and then non-static pre-image columns
\* exactly when the row exists; when the predicate holds the row is only
\* [applied] = true.
C8_ConditionalWrite ==
  LET pre == PreImage(hist[lastOp.readT], lastOp.kv)
      holds == HoldsOn(lastOp.kv.if_expr[1], pre)
  IN /\ (ConditionalWrite /\ ~holds
           => (/\ lastOp.st = "OK"
               /\ batch = lastOp.pre
               /\ lastOp.resp.rowblock
                    = <<[applied |-> FALSE,
                         columns |-> IF pre.exists THEN pre.columns ELSE << >>]>>))
     /\ (ConditionalWrite /\ holds
           => lastOp.resp.rowblock = <<[applied |-> TRUE, columns |-> << >>]>>)

\* An UPDATE ... IF s = 1 AND c = 1 on a row whose c is 2: not applied, and
\* the row block shows s and c.
C8_Witness ==
  /\ ConditionalWrite
  /\ lastOp.kv.type = "QL_STMT_UPDATE"
  /\ Len(lastOp.kv.column_values) > 0
  /\ lastOp.resp.rowblock
       = <<[applied |-> FALSE,
            columns |-> <<[id |-> "s", value |-> <<1>>], [id |-> "c", value |-> <<2>>]>>]>>
  /\ batch = EmptyBatch

\* The rows of a finished or unfinished paged read: the pages fetched before
\* and the page of the last response.
RowsSoFar == lastRead.args.fetched \o lastRead.resp.rows

\* The rows the statement matches: what it returns when read without limit.
MatchingRows ==
  Execute(hist[lastRead.readT], [lastRead.kv EXCEPT !.limit = << >>, !.paging_state = << >>]).resp.rows

PagedRead ==
  /\ lastRead.cmd = "QLREAD"
  /\ ~lastRead.kv.is_aggregate
  /\ lastRead.kv.return_paging_state
  /\ lastRead.kv.limit \notin {<< >>, <<0>>}

\* C9: a non-aggregate read with limit L over N > L matching rows returns L
\* rows and a paging state on its first page; the pages fetched by resuming
\* from the paging states are the matching rows in order, none skipped or
\* repeated; and the page without a paging state completes them.
C9_Paging ==
  /\ (PagedRead /\ lastRead.args.page = 1 /\ lastRead.kv.limit[1] < Len(MatchingRows)
        => (/\ Len(lastRead.resp.rows) = lastRead.kv.limit[1]
            /\ lastRead.resp.paging_state # << >>))
  /\ (PagedRead
        => (/\ Len(RowsSoFar) <= Len(MatchingRows)
            /\ RowsSoFar = SubSeq(MatchingRows, 1, Len(RowsSoFar))))
  /\ (PagedRead /\ lastRead.resp.paging_state = << >> => RowsSoFar = MatchingRows)

RangeDelete ==
  /\ nOps = 1
  /\ lastOp.cmd = "QLWRITE"
  /\ lastOp.kv.type = "QL_STMT_DELETE"
  /\ lastOp.kv.range_column_values = << >>
  /\ lastOp.kv.column_values = << >>

\* The rows of the addressed hash key a range delete is to delete: those the
\* scan returns (the live rows, and those with a referenced column stored)
\* that satisfy the WHERE clause on the range column.
RowsToDelete(snap, request) ==
  {k \in DocKeysOf(snap) :
     /\ k.hashed = request.hashed_column_values
     /\ \/ Encode(k) \o <<kLivenessColumn>> \in DOMAIN snap
        \/ \E id \in request.column_refs.ids : ~is_key_column(id) /\ StoredAt(snap, k, id) # << >>
     /\ \/ request.where_expr = << >>
        \/ /\ k.range # << >>
           /\ IF request.where_expr[1].op = "EQ" THEN k.range[1] = request.where_expr[1].value
              ELSE k.range[1] >= request.where_expr[1].value}

\* C10: a range delete appends a row delete for exactly the rows of the
\* addressed hash key that the scan at the read time returns and that match
\* the WHERE clause, and nothing for any other row.
C10_RangeDelete ==
  LET rows == RowsToDelete(hist[lastOp.readT], lastOp.kv)
      puts == AppendedBy(lastOp)
  IN RangeDelete
       => (/\ lastOp.st = "OK"
           /\ \A i \in 1..Len(puts) :
                /\ puts[i].val.vt = Tombstone.vt
                /\ DecodeDocKey(puts[i].path) \in rows
                /\ lastOp.kv.has_user_timestamp \/ puts[i].path = Encode(DecodeDocKey(puts[i].path))
           /\ \A k \in rows : \E i \in 1..Len(puts) : IsPrefix(Encode(k), puts[i].path)
           /\ ~lastOp.kv.has_user_timestamp => Len(puts) = Cardinality(rows))

\* A range delete WHERE r >= 2 on a hash key with live rows r = 1 and r = 2:
\* one row delete is appended, for r = 2.
C10_Witness ==
  /\ RangeDelete
  /\ lastOp.kv.where_expr = <<Condition("GE", "r", 2)>>
  /\ ~lastOp.kv.has_user_timestamp
  /\ Encode(DocKey(<<1>>, <<1>>)) \o <<kLivenessColumn>> \in DOMAIN hist[lastOp.readT]
  /\ AppendedBy(lastOp) = <<[path |-> Encode(DocKey(<<1>>, <<2>>)), val |-> Tombstone]>>

QLWrite == nOps = 1 /\ lastOp.cmd = "QLWRITE"

\* The reasons for a read of current state: an IF clause, a range delete, a
\* caller-supplied write timestamp.
HasIfClause(request) == request.if_expr # << >>

IsRangeDelete(request) ==
  /\ request.type = "QL_STMT_DELETE"
  /\ request.range_column_values = << >>
  /\ request.column_values = << >>

ReferencesColumns(request) ==
  request.column_refs.ids # {} \/ request.column_refs.static_ids # {}

\* C11 as stated: a structured write declares SNAPSHOT_ISOLATION exactly
\* when it has an IF clause, is a range delete or carries a caller-supplied
\* write timestamp, and SERIALIZABLE_ISOLATION otherwise.
C11_IsolationAsStated ==
  QLWrite
    => (/\ lastOp.args.level \in {"SNAPSHOT_ISOLATION", "SERIALIZABLE_ISOLATION"}
        /\ lastOp.args.level = "SNAPSHOT_ISOLATION"
             <=> \/ HasIfClause(lastOp.kv)
                 \/ IsRangeDelete(lastOp.kv)
                 \/ lastOp.kv.has_user_timestamp)

\* C11: a structured write declares SNAPSHOT_ISOLATION exactly when it has
\* an IF clause, references a column in an assigned expression or in its
\* WHERE clause, is a range delete, or carries a caller-supplied write
\* timestamp, and SERIALIZABLE_ISOLATION otherwise.
C11_IsolationLevel ==
  QLWrite
    => (/\ lastOp.args.level \in {"SNAPSHOT_ISOLATION", "SERIALIZABLE_ISOLATION"}
        /\ lastOp.args.level = "SNAPSHOT_ISOLATION"
             <=> \/ HasIfClause(lastOp.kv)
                 \/ ReferencesColumns(lastOp.kv)
                 \/ IsRangeDelete(lastOp.kv)
                 \/ lastOp.kv.has_user_timestamp)

\* An UPDATE SET c = c with no IF clause and no write timestamp: the
\* assigned expression reads c, and the write is declared under snapshot
\* isolation.
C11_Witness ==
  /\ QLWrite
  /\ lastOp.kv.type = "QL_STMT_UPDATE"
  /\ ~HasIfClause(lastOp.kv)
  /\ ~lastOp.kv.has_user_timestamp
  /\ lastOp.kv.column_values = <<ColumnValue("c", RefExpr("c", 1), "kScalarInsert", << >>)>>
  /\ ReferencesColumns(lastOp.kv)
  /\ lastOp.args.level = "SNAPSHOT_ISOLATION"

\* C12: every mutation a structured write appends addresses a document key
\* that is one of the paths it declared through GetDocPathsToLock.
C12_DeclaredPaths ==
  LET puts == AppendedBy(lastOp)
      declared == {lastOp.args.paths[i] : i \in 1..Len(lastOp.args.paths)}
  IN QLWrite
       => \A i \in 1..Len(puts) : Encode(DecodeDocKey(puts[i].path)) \in declared

\* C13: an Apply leaves the store as it is and only appends to the write
\* batch, an Execute and the abandoning of a batch leave the store as it is,
\* and the store changes only when the whole batch is applied to it.
C13_StoreUntouched ==
  [][/\ (nOps' = nOps + 1
           => (/\ hist' = hist
               /\ Len(batch'.puts) >= Len(batch.puts)
               /\ SubSeq(batch'.puts, 1, Len(batch.puts)) = batch.puts))
     /\ (lastRead'.cmd # "none" => hist' = hist /\ batch' = batch)
     /\ (lastOp'.cmd = "abandoned" /\ lastOp.cmd # "abandoned"
           => hist' = hist /\ batch' = EmptyBatch)
     /\ (hist' # hist
           => (/\ nOps > 0
               /\ nOps' = 0
               /\ hist' = Append(hist, ApplyPuts(Latest, batch.puts))))]_vars

\* A batch of two operations with at least two mutations was abandoned on a
\* store with the row (1, 1), and the read after it returns that row.
C13_Witness ==
  /\ lastOp.cmd = "abandoned"
  /\ lastOp.args.dropped >= MaxBatchOps
  /\ Len(hist) = 1
  /\ hist[1] # EmptySnap
  /\ lastRead.cmd = "QLREAD"
  /\ Len(lastRead.resp.rows) = 1

\* An assignment that merges into a collection or writes a sub-column.
MergesCollection(column_value) ==
  column_value.write_instr # "kScalarInsert" \/ column_value.subscript_args # << >>

MergeColumns(request) ==
  {request.column_values[i].column_id :
     i \in {j \in 1..Len(request.column_values) : MergesCollection(request.column_values[j])}}

UpsertWithTimestamp ==
  /\ QLWrite
  /\ lastOp.kv.type \in {"QL_STMT_INSERT", "QL_STMT_UPDATE"}
  /\ lastOp.kv.has_user_timestamp

\* The statement is applied: it has no IF clause, or its IF clause holds on
\* the pre-image.
StatementApplies ==
  \/ lastOp.kv.if_expr = << >>
  \/ HoldsOn(lastOp.kv.if_expr[1], PreImage(hist[lastOp.readT], lastOp.kv))

\* The columns the mutations appended by the last write address.
ColumnsTouched ==
  {id \in SeqRange(ValueColumnIds) :
     \E i \in 1..Len(AppendedBy(lastOp)) :
       \E j \in 1..Len(AppendedBy(lastOp)[i].path) :
         AppendedBy(lastOp)[i].path[j] = ColumnSeg(id)}

\* C14 as stated: an INSERT or UPDATE with a caller-supplied write timestamp
\* and a collection-merge or sub-column assignment is rejected with
\* InvalidArgument and appends nothing to the merged column.
C14_AsStated ==
  UpsertWithTimestamp /\ MergeColumns(lastOp.kv) # {}
    => (/\ lastOp.st = "InvalidArgument"
        /\ ColumnsTouched \cap MergeColumns(lastOp.kv) = {})

\* C14: an INSERT or UPDATE with a caller-supplied write timestamp and a
\* collection-merge or sub-column assignment is rejected with
\* InvalidArgument when the statement is applied and is left unapplied with
\* status OK when its IF clause fails, and in both cases appends nothing to
\* the merged column; with whole-value scalar assignments only, the
\* timestamp is accepted and every assigned column is written.
C14_RejectsTimestamp ==
  /\ (UpsertWithTimestamp /\ MergeColumns(lastOp.kv) # {}
        => (/\ lastOp.st = (IF StatementApplies THEN "InvalidArgument" ELSE "OK")
            /\ (~StatementApplies => batch = lastOp.pre)
            /\ ColumnsTouched \cap MergeColumns(lastOp.kv) = {}))
  /\ (UpsertWithTimestamp /\ MergeColumns(lastOp.kv) = {} /\ StatementApplies
        => (/\ lastOp.st = "OK"
            /\ \A i \in 1..Len(lastOp.kv.column_values) :
                 lastOp.kv.column_values[i].column_id \in ColumnsTouched))

\* An INSERT with a write timestamp of c = 1 and l[1] = 2: rejected after
\* the liveness marker and c were appended, nothing appended for l.
C14_Witness ==
  /\ UpsertWithTimestamp
  /\ lastOp.kv.type = "QL_STMT_INSERT"
  /\ lastOp.kv.if_expr = << >>
  /\ MergeColumns(lastOp.kv) = {"l"}
  /\ lastOp.st = "InvalidArgument"
  /\ ColumnsTouched = {"c"}

\* The hint of one sub-scan of the last operation.
HintAt(readT, doc_keys) == RestartReadHt(hist, readT, doc_keys, Len(hist))

\* C15: the restart-read hint an operation reports is at least the hint of
\* every sub-scan it performed: for a read the main scan and the static-row
\* lookup of a resumed page, for a write the static read, the primary-key
\* read and the range-delete scan.
C15_RestartHint ==
  /\ (lastRead.cmd = "QLREAD" /\ lastRead.kv.limit # <<0>>
        => LET scans == QLReadScans(hist, lastRead.kv)
           IN /\ lastRead.args.restart_read_ht >= HintAt(lastRead.readT, scans.main)
              /\ \A i \in 1..Len(scans.static) :
                   lastRead.args.restart_read_ht >= HintAt(lastRead.readT, scans.static[i]))
  /\ (QLWrite
        => LET scans == QLWriteScans(hist, lastOp.readT, lastOp.kv)
           IN \A i \in 1..Len(scans) :
                lastOp.args.restart_read_ht >= HintAt(lastOp.readT, scans[i]))

AggregateRead == lastRead.cmd = "QLREAD" /\ lastRead.kv.is_aggregate

\* The rows the scan of the last read matches: what the same statement
\* returns row by row when read without aggregation and without limit.
ScannedMatches ==
  Execute(hist[lastRead.readT],
          [lastRead.kv EXCEPT !.is_aggregate = FALSE, !.limit = << >>,
                              !.paging_state = << >>]).resp.rows

\* C16: an aggregate read returns exactly one row, the aggregate over all
\* matching rows, when the scan matched at least one row, and no row
\* otherwise (a read with limit 0 scans nothing); it never returns the
\* rows themselves and never a paging state.
C16_Aggregate ==
  AggregateRead
    => (/\ lastRead.st = "OK"
        /\ lastRead.resp.paging_state = << >>
        /\ lastRead.resp.rows
             = IF lastRead.kv.limit # <<0>> /\ Len(ScannedMatches) > 0
               THEN <<(<<(<<Len(ScannedMatches)>>)>>)>>
               ELSE << >>)

\* An aggregate read with limit 1 and a paging state asked for, over a
\* table with at least three matching rows: one row, no paging state.
C16_Witness ==
  /\ AggregateRead
  /\ lastRead.kv.limit = <<1>>
  /\ lastRead.kv.return_paging_state
  /\ Len(ScannedMatches) >= 3
  /\ Len(lastRead.resp.rows) = 1
  /\ lastRead.resp.paging_state = << >>

\* A non-distinct, non-aggregate read that selects h, r, s, c.
StaticJoinRead ==
  /\ lastRead.cmd = "QLREAD"
  /\ ~lastRead.kv.distinct
  /\ ~lastRead.kv.is_aggregate
  /\ lastRead.kv.selected = <<"h", "r", "s", "c">>

\* C17: in a non-distinct read that selects the static column, every
\* returned non-static row carries the static value stored for its own
\* hash key, and none when nothing is stored for it, on the first page and
\* on the pages resumed from a paging state.
C17_StaticJoin ==
  StaticJoinRead
    => \A i \in 1..Len(lastRead.resp.rows) :
         LET row == lastRead.resp.rows[i]
         IN row[2] # << >>
              => row[3] = StoredAt(hist[lastRead.readT], DocKey(row[1], << >>), "s")

\* The third page of a read with limit 1: the row (2, 1) of a hash key
\* without a static row, returned without a static value after the rows of
\* hash key 1 were returned with s = 1.
C17_Witness ==
  /\ StaticJoinRead
  /\ lastRead.args.page = 3
  /\ \A i \in 1..Len(lastRead.args.fetched) : lastRead.args.fetched[i][3] = <<1>>
  /\ Len(lastRead.resp.rows) = 1
  /\ lastRead.resp.rows[1][1] = <<2>>
  /\ lastRead.resp.rows[1][2] # << >>
  /\ lastRead.resp.rows[1][3] = << >>

\* The stream of the iterator of the last read.
StreamOfRead ==
  LET proj == CreateProjections(lastRead.kv.column_refs)
  IN ScanStream(hist[lastRead.readT], BuildQLScanSpec(lastRead.kv, proj.static # << >>).spec,
                proj.static \o proj.non_static)

\* The last read returned, as its last row, the last row of the stream.
SourceExhausted ==
  \/ StreamOfRead = << >>
  \/ /\ ~lastRead.kv.distinct
     /\ lastRead.resp.rows # << >>
     /\ LET row == lastRead.resp.rows[Len(lastRead.resp.rows)]
        IN DocKey(row[1], row[2]) = StreamOfRead[Len(StreamOfRead)]

\* C18: a non-aggregate read attaches a paging state only when it was asked
\* for one, the page is full and the iterator still has a row, which the
\* paging state names; a read that returned the last row of its source
\* attaches none, also when that row filled the page.
C18_PagingState ==
  lastRead.cmd = "QLREAD" /\ ~lastRead.kv.is_aggregate
    => (/\ lastRead.resp.paging_state # << >>
             => (/\ lastRead.kv.return_paging_state
                 /\ lastRead.kv.limit # << >>
                 /\ Len(lastRead.resp.rows) = lastRead.kv.limit[1]
                 /\ \E i \in 1..Len(StreamOfRead) :
                      /\ StreamOfRead[i] = lastRead.resp.paging_state[1]
                      /\ lastRead.kv.distinct
                           \/ \A j \in 1..Len(lastRead.resp.rows) :
                                DocKeyLess(DocKey(lastRead.resp.rows[j][1],
                                                  lastRead.resp.rows[j][2]),
                                           StreamOfRead[i]))
        /\ SourceExhausted => lastRead.resp.paging_state = << >>)

\* A read with limit 2 and a paging state asked for over a table of exactly
\* two rows: both rows, no paging state.
C18_Witness ==
  /\ lastRead.cmd = "QLREAD"
  /\ ~lastRead.kv.is_aggregate
  /\ ~lastRead.kv.distinct
  /\ lastRead.kv.return_paging_state
  /\ lastRead.kv.limit = <<2>>
  /\ lastRead.args.page = 1
  /\ Len(StreamOfRead) = 2
  /\ Len(lastRead.resp.rows) = 2
  /\ lastRead.resp.paging_state = << >>

\* The last write is a statement on a row with the IF clause s = 1 AND c = 1,
\* which reads the static row and the row of the primary key.
TwoReadWrite ==
  /\ QLWrite
  /\ lastOp.kv.range_column_values # << >>
  /\ lastOp.kv.if_expr = <<And(<<Condition("EQ", "s", 1), Condition("EQ", "c", 1)>>)>>

\* The snapshot at the read time of an operation, and whether a later
\* commit changed what is stored for a column under a doc key.
ChangedSince(readT, doc_key, id) ==
  StoredAt(hist[readT], doc_key, id) # StoredAt(Latest, doc_key, id)

ForwardOf(snap) ==
  {<<p[3].n, p[4].s>> : p \in {q \in DOMAIN snap : /\ Len(q) = 4
                                                   /\ q[1] = StrSeg(TheKey)
                                                   /\ q[2] = kSSForward}}

ReverseOf(snap) == {<<ScoreOf(snap, member), member>> : member \in MembersOf(snap)}

MirrorsAgree(snap) ==
  /\ ForwardOf(snap) = ReverseOf(snap)
  /\ CounterOf(snap) = Cardinality(MembersOf(snap))

\* The last commit applied one sorted-set add or remove that ran against
\* the store as it was just before.
ZStepCommitted ==
  /\ committed.n = 1
  /\ committed.op.cmd \in {"ZADD", "ZREM"}
  /\ committed.op.st = "OK"
  /\ committed.op.readT = Len(hist) - 1

\* C20: a sorted-set add (with any of the options) or remove, run against a
\* store in which the forward and the reverse map hold the same (score,
\* member) pairs and the counter is the number of members, and applied,
\* leaves a store in which they still do.
C20_MirrorsExact ==
  ZStepCommitted /\ MirrorsAgree(hist[Len(hist) - 1]) => MirrorsAgree(Latest)

\* The last operation is a SET without sub-keys, alone in its batch.
PlainSet == nOps = 1 /\ lastOp.cmd = "SET"

\* C21: SET without sub-keys is gated by its write mode. In insert mode on a
\* key with a stored value (of any type) and in update mode on a key with
\* none, the response is NOT_FOUND and no mutation is appended; otherwise,
\* and always in upsert mode, the response is OK and the one mutation
\* appended writes the given string under the key.
C21_WriteModeGate ==
  PlainSet
    => LET stored == StoredType(hist[lastOp.readT]) # "NONE"
           mode == lastOp.args.mode
           gated == (mode = "INSERT" /\ stored) \/ (mode = "UPDATE" /\ ~stored)
       IN /\ lastOp.st = "OK"
          /\ gated => lastOp.resp.code = "NOT_FOUND" /\ batch.puts = << >>
          /\ ~gated
               => /\ lastOp.resp.code = "OK"
                  /\ batch.puts = <<[path |-> DocKeyFromRedisKey(TheKey),
                                     val |-> StringVal(lastOp.kv.values[1])]>>

\* An insert-mode SET on a key that holds a hash: NOT_FOUND, nothing appended.
C21_Witness ==
  /\ PlainSet
  /\ lastOp.args.mode = "INSERT"
  /\ StoredType(hist[lastOp.readT]) = "HASH"
  /\ lastOp.resp.code = "NOT_FOUND"
  /\ batch.puts = << >>

\* The last operation is an INCR, alone in its batch, on a key that holds
\* no value or the empty string.
IncrOnMissing ==
  /\ nOps = 1
  /\ lastOp.cmd = "INCR"
  /\ LET before == hist[lastOp.readT]
     IN \/ StoredType(before) = "NONE"
        \/ before[DocKeyFromRedisKey(TheKey)] = StringVal(EmptyStr)

\* C22: INCR on a key with no stored value, or with the empty string, takes
\* the current value as 0: it responds with the delta as the integer
\* response, without NOT_FOUND and without an error message, and appends the
\* write of the string form of the delta.
C22_IncrOnMissing ==
  IncrOnMissing
    => /\ lastOp.st = "OK"
       /\ lastOp.resp.code # "NOT_FOUND"
       /\ lastOp.resp.err = ""
       /\ lastOp.resp.has_int /\ lastOp.resp.int = lastOp.args.incr
       /\ batch.puts = <<[path |-> DocKeyFromRedisKey(TheKey),
                          val |-> StringVal(Int64ToString(lastOp.args.incr))]>>

\* The last operation is a SETRANGE, alone in its batch, on a key that holds
\* a string or nothing.
SetRangeOnString ==
  /\ nOps = 1
  /\ lastOp.cmd = "SETRANGE"
  /\ StoredType(hist[lastOp.readT]) \in {"NONE", "STRING"}

\* The string under the key in a snapshot: empty when the key is absent.
OldString(snap) ==
  IF StoredType(snap) = "NONE" THEN EmptyStr ELSE snap[DocKeyFromRedisKey(TheKey)].s

\* C23: SETRANGE at `offset` with value v on a string or absent key appends
\* one write of a string of length max(len(old), offset + len(v)) whose bytes
\* [offset, offset + len(v)) are v, whose bytes from len(old) up to offset
\* are zero bytes and whose other bytes are the old ones; the integer
\* response is the new length.
C23_SetRange ==
  SetRangeOnString
    => LET old == OldString(hist[lastOp.readT])
           v == lastOp.kv.values[1]
           offset == lastOp.args.offset
           over == offset + Len(v)
       IN /\ lastOp.st = "OK"
          /\ lastOp.resp.code = "OK"
          /\ Len(batch.puts) = 1
          /\ batch.puts[1].path = DocKeyFromRedisKey(TheKey)
          /\ batch.puts[1].val.vt = "kString"
          /\ LET new == batch.puts[1].val.s
             IN /\ Len(new) = (IF Len(old) > over THEN Len(old) ELSE over)
                /\ lastOp.resp.has_int /\ lastOp.resp.int = Len(new)
                /\ \A i \in 1..Len(new) :
                     new[i] = IF i > offset /\ i <= over THEN v[i - offset]
                              ELSE IF i > Len(old) THEN NulChar
                              ELSE old[i]

\* SETRANGE at offset 2 on a one-byte string: a zero byte fills the gap.
C23_Witness ==
  /\ SetRangeOnString
  /\ Len(OldString(hist[lastOp.readT])) = 1
  /\ lastOp.args.offset = 2
  /\ Len(batch.puts) = 1
  /\ batch.puts[1].val.s = OldString(hist[lastOp.readT]) \o <<NulChar>> \o lastOp.kv.values[1]

\* The last read is a GETRANGE of a key that holds a string.
GetRangeOfString ==
  lastRead.cmd = "GETRANGE" /\ StoredType(hist[lastRead.readT]) = "STRING"

\* C24: GETRANGE on a string of length len maps a negative index i to
\* i + len. If a mapped index is outside [0, len) or the mapped end is
\* below the mapped start, the call status is OK, the response code is
\* INDEX_OUT_OF_BOUNDS and there is no string payload; otherwise the
\* response is the substring from start to end inclusive.
C24_GetRange ==
  GetRangeOfString
    => LET old == OldString(hist[lastRead.readT])
           len == Len(old)
           Mapped(i) == IF i < 0 THEN i + len ELSE i
           start == Mapped(lastRead.args.start)
           end == Mapped(lastRead.args.end)
           out == \/ start \notin 0..(len - 1)
                  \/ end \notin 0..(len - 1)
                  \/ end < start
       IN /\ lastRead.st = "OK"
          /\ out => lastRead.resp.code = "INDEX_OUT_OF_BOUNDS" /\ ~lastRead.resp.has_str
          /\ ~out => /\ lastRead.resp.code = "OK"
                     /\ lastRead.resp.has_str
                     /\ lastRead.resp.str = SubSeq(old, start + 1, end + 1)

\* GETRANGE -2 -1 of a string of three bytes: its last two bytes.
C24_Witness ==
  /\ GetRangeOfString
  /\ Len(OldString(hist[lastRead.readT])) = 3
  /\ lastRead.args.start = -2
  /\ lastRead.args.end = -1
  /\ lastRead.resp.has_str
  /\ lastRead.resp.str = SubSeq(OldString(hist[lastRead.readT]), 2, 3)

\* The last operation is a DEL with sub-keys, alone in its batch, on a key
\* that holds the type the request declares.
SubDelOn(types) ==
  /\ nOps = 1
  /\ lastOp.cmd = "SUBDEL"
  /\ lastOp.kv.type \in types
  /\ StoredType(hist[lastOp.readT]) = lastOp.kv.type

\* The tombstones of the given sub-keys of the last operation, as mutations.
TombstonesOf(subkeys) ==
  {[path |-> DocKeyFromRedisKey(TheKey) \o <<sk>>, val |-> Tombstone] : sk \in subkeys}

GivenSubKeys(op) == {op.kv.subkeys[i] : i \in 1..Len(op.kv.subkeys)}

ExistingSubKeys(op) ==
  {sk \in GivenSubKeys(op) : DocKeyFromRedisKey(TheKey) \o <<sk>> \in DOMAIN hist[op.readT]}

PutsOf(b) == {b.puts[i] : i \in 1..Len(b.puts)}

\* C25: with response emulation on, DEL with sub-keys on a hash or set
\* appends a tombstone for exactly the given sub-keys that exist and
\* responds with their count. On a time series it appends a tombstone for
\* every given sub-key, stored or not, and the response carries no count.
C25_SubKeyDelete ==
  /\ SubDelOn({"HASH", "SET"}) /\ emulate
       => /\ lastOp.st = "OK"
          /\ lastOp.resp.code = "OK"
          /\ PutsOf(batch) = TombstonesOf(ExistingSubKeys(lastOp))
          /\ Len(batch.puts) = Cardinality(ExistingSubKeys(lastOp))
          /\ lastOp.resp.has_int
          /\ lastOp.resp.int = Cardinality(ExistingSubKeys(lastOp))
  /\ SubDelOn({"TIMESERIES"})
       => /\ lastOp.st = "OK"
          /\ lastOp.resp.code = "OK"
          /\ PutsOf(batch) = TombstonesOf(GivenSubKeys(lastOp))
          /\ Len(batch.puts) = Cardinality(GivenSubKeys(lastOp))
          /\ ~lastOp.resp.has_int

\* HDEL of two fields of which one is stored: one tombstone, count 1.
C25_Witness ==
  /\ SubDelOn({"HASH"})
  /\ emulate
  /\ Len(lastOp.kv.subkeys) = 2
  /\ Cardinality(ExistingSubKeys(lastOp)) = 1
  /\ Len(batch.puts) = 1
  /\ lastOp.resp.int = 1

\* The mutations the last operation would append with
\* emulate_redis_responses on, for the same store and request.
PutsWithFlagOn(op) ==
  IF op.cmd = "SADD" THEN ApplyAdd(hist[op.readT], Latest, op.pre, op.kv, TRUE).b.puts
  ELSE IF op.cmd = "HSET"
  THEN ApplySet(hist[op.readT], Latest, op.pre, op.kv, "UPSERT", op.args.expect_ok_response,
                NoOpts, TRUE, 0).b.puts
  ELSE ApplyDel(hist[op.readT], Latest, op.pre, op.kv, TRUE).b.puts

\* The last operation is one of the commands the flag is about.
FlagCommand(cmds) ==
  /\ nOps = 1
  /\ lastOp.cmd \in cmds
  /\ lastOp.cmd = "HSET" => lastOp.kv.type = "HASH"
  /\ lastOp.cmd = "SUBDEL" => lastOp.kv.type \in {"HASH", "SET"}
  /\ lastOp.st = "OK"

SameEffect(cmds) ==
  FlagCommand(cmds)
    => /\ batch.puts = PutsWithFlagOn(lastOp)
       /\ ~emulate /\ lastOp.resp.code = "OK" => lastOp.resp = SetCode(NoResponse, "OK")

\* C26: emulate_redis_responses changes the response only. For the same
\* store and request, SADD, HSET and DEL with sub-keys on a hash or set
\* append the same mutations with the flag off as with it on, and with the
\* flag off a successful response is just OK.
C26_SameStoredEffect == SameEffect({"SADD", "HSET", "SUBDEL"})

\* The store as an operation of a batch should see it: the snapshot at its
\* read time with the mutations appended earlier in the batch applied.
SeenBy(op) == ApplyPuts(hist[op.readT], op.pre.puts)

\* The last operation is a SADD on a key that, with the batch so far, holds
\* a set or nothing.
AddToSet ==
  /\ nOps >= 1
  /\ lastOp.cmd = "SADD"
  /\ lastOp.readT = Len(hist)
  /\ StoredType(SeenBy(lastOp)) \in {"NONE", "SET"}

NewMembers(op) ==
  {sk \in GivenSubKeys(op) : DocKeyFromRedisKey(TheKey) \o <<sk>> \notin DOMAIN SeenBy(op)}

CollectionScan(request_type) == lastRead.cmd = request_type

WrongSignedInfinity ==
  \/ lastRead.args.lower_bound.infinity_type = "POSITIVE"
  \/ lastRead.args.upper_bound.infinity_type = "NEGATIVE"

\* A sub-key value lies within the bounds of the last read.
InRequestedRange(x) ==
  LET lb == lastRead.args.lower_bound
      ub == lastRead.args.upper_bound
  IN /\ \/ lb.infinity_type = "NEGATIVE"
        \/ lb.infinity_type = "none" /\ (x > lb.v \/ (~lb.is_exclusive /\ x = lb.v))
     /\ \/ ub.infinity_type = "POSITIVE"
        \/ ub.infinity_type = "none" /\ (x < ub.v \/ (~ub.is_exclusive /\ x = ub.v))

\* The (timestamp, value) entries of the time series under the key.
SeriesOf(snap) ==
  {<<p[2].n, snap[p].s>> : p \in {q \in DOMAIN snap : /\ Len(q) = 2
                                                      /\ q[1] = StrSeg(TheKey)
                                                      /\ q[2].k = "kInt64Descending"}}

\* The ways to list a set of (sub-key, payload) entries in ascending
\* sub-key order.
AscendingListings(entries) ==
  {s \in [1..Cardinality(entries) -> entries] :
     /\ \A i, j \in DOMAIN s : i # j => s[i] # s[j]
     /\ \A i, j \in DOMAIN s : i < j => s[i][1] <= s[j][1]}

\* A listing as a response array: sub-key and payload, or the payload only.
KeysAndPayloads(s, key_type) ==
  LET KeyString(x) == IF key_type = "kDouble" THEN DoubleToString(x) ELSE Int64ToString(x)
  IN [i \in 1..(2 * Len(s)) |-> IF i % 2 = 1 THEN KeyString(s[(i + 1) \div 2][1])
                                ELSE s[i \div 2][2]]

PayloadsOnly(s) == [i \in 1..Len(s) |-> s[i][2]]

\* C28: a collection range scan returns exactly the entries whose sub-key
\* lies within the requested bounds (inclusive unless marked exclusive,
\* unbounded at an infinity), ZRANGEBYSCORE in ascending score order and
\* TSRANGEBYTIME in ascending timestamp order; with positive infinity as
\* lower bound or negative infinity as upper bound the result is an empty
\* array with code OK, whatever the store holds.
C28_RangeScan ==
  LET snap == hist[lastRead.readT]
      scores == {p \in ForwardOf(snap) : InRequestedRange(p[1])}
      times == {p \in SeriesOf(snap) : InRequestedRange(p[1])}
      answered == /\ lastRead.st = "OK"
                  /\ lastRead.resp.code = "OK"
                  /\ lastRead.resp.has_arr
  IN /\ (CollectionScan("ZRANGEBYSCORE") \/ CollectionScan("TSRANGEBYTIME")) /\ WrongSignedInfinity
          => answered /\ lastRead.resp.arr = << >>
     /\ CollectionScan("ZRANGEBYSCORE") /\ ~WrongSignedInfinity /\ StoredType(snap) = "SORTEDSET"
          => /\ answered
             /\ \E s \in AscendingListings(scores) :
                  lastRead.resp.arr = IF lastRead.args.with_scores
                                      THEN KeysAndPayloads(s, "kDouble")
                                      ELSE PayloadsOnly(s)
     /\ CollectionScan("TSRANGEBYTIME") /\ ~WrongSignedInfinity /\ StoredType(snap) = "TIMESERIES"
          => /\ answered
             /\ \E s \in AscendingListings(times) :
                  lastRead.resp.arr = KeysAndPayloads(s, "kInt64")

\* TSRANGEBYTIME over a series with the timestamps 1 and 2, lower bound 1
\* exclusive: timestamp 2 alone is returned.
C28_Witness ==
  /\ CollectionScan("TSRANGEBYTIME")
  /\ StoredType(hist[lastRead.readT]) = "TIMESERIES"
  /\ Cardinality(SeriesOf(hist[lastRead.readT])) = 2
  /\ lastRead.args.lower_bound = SubKeyBound("none", 1, TRUE)
  /\ lastRead.args.upper_bound = PosInf
  /\ Len(lastRead.resp.arr) = 2
  /\ lastRead.resp.arr[1] = Int64ToString(2)

\* ------------------------------------------------- the liveness marker
\* The last write is an INSERT that gives a primary key and is applied.
InsertOfRow ==
  /\ QLWrite
  /\ lastOp.kv.type = "QL_STMT_INSERT"
  /\ lastOp.kv.range_column_values # << >>
  /\ StatementApplies

\* The liveness marker path of the row the last write addresses.
LivenessPath ==
  Encode(DocKey(lastOp.kv.hashed_column_values, lastOp.kv.range_column_values))
    \o <<kLivenessColumn>>

\* The puts of a sequence that address a liveness marker.
LivenessPuts(puts) ==
  {i \in 1..Len(puts) : puts[i].path[Len(puts[i].path)] = kLivenessColumn}

\* C29: an applied INSERT that gives a primary key appends, before any
\* column write, exactly one write of the liveness marker under that primary
\* key: a null primitive whose TTL is the statement's (the maximum when it
\* has none) and whose user timestamp is the statement's (invalid when it
\* has none); so the row exists in the store with the batch applied even when
\* the INSERT assigns no column.  An UPDATE appends no liveness marker.
C29_LivenessMarker ==
  LET puts == AppendedBy(lastOp)
  IN /\ (InsertOfRow
           => (/\ LivenessPuts(puts) = {1}
               /\ puts[1].path = LivenessPath
               /\ puts[1].val.vt = NullVal.vt
               /\ puts[1].val.ttl
                    = (IF lastOp.kv.has_ttl THEN "request.ttl" ELSE "kMaxTtl")
               /\ puts[1].val.user_timestamp
                    = (IF lastOp.kv.has_user_timestamp THEN "request.user_timestamp_usec"
                       ELSE "kInvalidUserTimestamp")
               /\ LivenessPath \in DOMAIN Applied(batch)))
     /\ (QLWrite /\ lastOp.kv.type = "QL_STMT_UPDATE" => LivenessPuts(puts) = {})

\* An INSERT USING TTL AND TIMESTAMP of a new row with no column values:
\* the batch holds the liveness marker only, and the row was absent before.
C29_Witness ==
  /\ InsertOfRow
  /\ lastOp.kv.column_values = << >>
  /\ lastOp.kv.has_ttl
  /\ lastOp.kv.has_user_timestamp
  /\ Len(AppendedBy(lastOp)) = 1
  /\ LivenessPath \notin DOMAIN Latest

\* ------------------------------------------- assignment to a list element
\* The last assignment of the last write.
LastAssignment == lastOp.kv.column_values[Len(lastOp.kv.column_values)]

\* The last write is an applied INSERT or UPDATE without a user timestamp
\* whose last assignment is l[i] = v, the assignments before it being scalar.
ListElementWrite ==
  /\ nOps >= 1
  /\ lastOp.cmd = "QLWRITE"
  /\ lastOp.kv.type \in {"QL_STMT_INSERT", "QL_STMT_UPDATE"}
  /\ ~lastOp.kv.has_user_timestamp
  /\ StatementApplies
  /\ lastOp.kv.column_values # << >>
  /\ LastAssignment.column_id = "l"
  /\ LastAssignment.subscript_args # << >>
  /\ \A j \in 1..(Len(lastOp.kv.column_values) - 1) :
       lastOp.kv.column_values[j].subscript_args = << >>

\* The path of the list l of the row the last write addresses.
ListPath ==
  Encode(DocKey(lastOp.kv.hashed_column_values, lastOp.kv.range_column_values))
    \o <<ColumnSeg("l")>>

\* The elements of that list as of the read time, in list order.
ElementsAtReadTime == SortInts(ListIndexes(hist[lastOp.readT], ListPath))

\* The puts the statement appends before it comes to the list element: the
\* liveness marker of an INSERT and one per scalar assignment.
PutsBeforeElement ==
  (IF lastOp.kv.type = "QL_STMT_INSERT" THEN 1 ELSE 0) + Len(lastOp.kv.column_values) - 1

\* C30: l[i] = v with the 0-based index i of the statement overwrites the
\* element at the 1-based position i + 1 of the list as of the read time.
\* When the list has no such position the call status is OK, the response
\* status is USAGE_ERROR (not OK) with an error message, and no put is
\* appended for the element.  When the replace fails otherwise, its status
\* is the call status and the response status is not set to OK.
C30_ListElement ==
  LET i == LastAssignment.subscript_args[1]
      puts == AppendedBy(lastOp)
      inBounds == i + 1 \in 1..Len(ElementsAtReadTime)
  IN ListElementWrite
       => /\ (~ioError /\ inBounds
                => (/\ lastOp.st = "OK"
                    /\ lastOp.resp.status = "YQL_STATUS_OK"
                    /\ lastOp.resp.error_message = ""
                    /\ Len(puts) = PutsBeforeElement + 1
                    /\ puts[Len(puts)]
                         = [path |-> ListPath \o <<ArrayIndexSeg(ElementsAtReadTime[i + 1])>>,
                            val |-> Int32Val(LastAssignment.expr.value.n)]))
          /\ (~ioError /\ ~inBounds
                => (/\ lastOp.st = "OK"
                    /\ lastOp.resp.status = "YQL_STATUS_USAGE_ERROR"
                    /\ lastOp.resp.error_message # ""
                    /\ Len(puts) = PutsBeforeElement))
          /\ (ioError
                => (/\ lastOp.st = "IOError"
                    /\ lastOp.resp.status # "YQL_STATUS_OK"
                    /\ Len(puts) = PutsBeforeElement))

\* UPDATE ... SET l[2] = 3 on a list of two elements: the index is one past
\* the end, and the response is a usage error.
C30_Witness ==
  /\ ListElementWrite
  /\ ~ioError
  /\ lastOp.kv.type = "QL_STMT_UPDATE"
  /\ Len(ElementsAtReadTime) = 2
  /\ LastAssignment.subscript_args = <<2>>
  /\ lastOp.st = "OK"
  /\ lastOp.resp.status = "YQL_STATUS_USAGE_ERROR"

\* ------------------------------------------- failed structured writes
\* The last write ended with response status USAGE_ERROR or with a call
\* status other than OK.
FailedStatement ==
  /\ nOps >= 1
  /\ lastOp.cmd = "QLWRITE"
  /\ \/ lastOp.resp.status = "YQL_STATUS_USAGE_ERROR"
     \/ lastOp.st # "OK"

\* C31: a structured write that ends with response status USAGE_ERROR or
\* with a non-OK call status has appended nothing to the write batch: the
\* batch is as it was before the statement.
C31_AllOrNothing == FailedStatement => batch = lastOp.pre

\* ------------------------------------------------- the forms of DELETE
\* The last write is a DELETE that is applied.
DeleteApplied ==
  /\ QLWrite
  /\ lastOp.kv.type = "QL_STMT_DELETE"
  /\ StatementApplies

\* The doc key paths of the hash key and of the row the last write addresses.
HashedPath == Encode(DocKey(lastOp.kv.hashed_column_values, << >>))

RowPath == Encode(DocKey(lastOp.kv.hashed_column_values, lastOp.kv.range_column_values))

\* A tombstone written at the user timestamp of the statement, or without
\* one when the statement has none.
TombstoneOf(request) ==
  [vt |-> "kTombstone", s |-> EmptyStr, n |-> 0, ttl |-> "kMaxTtl",
   user_timestamp |-> IF request.has_user_timestamp THEN "request.user_timestamp_usec"
                      ELSE "kInvalidUserTimestamp"]

\* C32: an applied DELETE with named columns appends one tombstone per named
\* column (a static column under the hash key, any other under the row) and
\* nothing else; otherwise, without range columns, it appends row deletes
\* only for rows of the hash key that match the WHERE clause; otherwise it
\* deletes the addressed row: without a user timestamp by one tombstone of
\* the whole row, with one by a tombstone at that timestamp for each non-key
\* column of the schema and then for the liveness marker, none for the row.
C32_DeleteForms ==
  LET request == lastOp.kv
      puts == AppendedBy(lastOp)
      named == request.column_values
  IN DeleteApplied
       => /\ lastOp.st = "OK"
          /\ (named # << >>
                => puts = [i \in 1..Len(named) |->
                            [path |-> (IF is_static(named[i].column_id) THEN HashedPath
                                       ELSE RowPath) \o <<ColumnSeg(named[i].column_id)>>,
                             val |-> TombstoneOf(request)]])
          /\ (named = << >> /\ request.range_column_values = << >>
                => \A i \in 1..Len(puts) :
                     /\ puts[i].val.vt = "kTombstone"
                     /\ DecodeDocKey(puts[i].path)
                          \in RowsToDelete(hist[lastOp.readT], request))
          /\ (named = << >> /\ request.range_column_values # << >>
                           /\ ~request.has_user_timestamp
                => puts = <<[path |-> RowPath, val |-> Tombstone]>>)
          /\ (named = << >> /\ request.range_column_values # << >>
                           /\ request.has_user_timestamp
                => puts = [i \in 1..(Len(ValueColumnIds) + 1) |->
                            [path |-> RowPath
                                        \o <<IF i <= Len(ValueColumnIds)
                                              THEN ColumnSeg(ValueColumnIds[i])
                                              ELSE kLivenessColumn>>,
                             val |-> TombstoneOf(request)]])

\* DELETE FROM t USING TIMESTAMP WHERE h = 1 AND r = 1 on a live row: four
\* column tombstones and the liveness tombstone, none for the row itself.
C32_Witness ==
  /\ DeleteApplied
  /\ lastOp.kv.column_values = << >>
  /\ lastOp.kv.range_column_values = <<1>>
  /\ lastOp.kv.has_user_timestamp
  /\ RowPath \o <<kLivenessColumn>> \in DOMAIN hist[lastOp.readT]
  /\ Len(AppendedBy(lastOp)) = Len(ValueColumnIds) + 1
  /\ \A i \in 1..Len(AppendedBy(lastOp)) : AppendedBy(lastOp)[i].path # RowPath

\* ------------------------------------------- static rows in the result
\* The last read is a statement without WHERE clause or aggregate whose
\* rows are all fetched: it has no limit, or it was paged to the end.
CompleteRead ==
  /\ lastRead.cmd = "QLREAD"
  /\ ~lastRead.kv.is_aggregate
  /\ lastRead.kv.where_expr = << >>
  /\ lastRead.resp.paging_state = << >>
  /\ \/ lastRead.kv.limit = << >>
     \/ lastRead.kv.return_paging_state /\ lastRead.kv.limit # <<0>>

\* The entries the iterator of the last statement yields when read from the
\* start: the static and non-static doc keys of its hash-key groups.
EntriesRead ==
  LET proj == CreateProjections(lastRead.kv.column_refs)
  IN ScanStream(hist[lastRead.readT],
                [hashed |-> lastRead.kv.hashed_column_values,
                 where_expr |-> << >>, start |-> << >>],
                proj.static \o proj.non_static)

GroupsRead == {EntriesRead[i].hashed : i \in 1..Len(EntriesRead)}

HasStaticEntry(g) == \E i \in 1..Len(EntriesRead) : EntriesRead[i] = DocKey(g, << >>)

HasNonStaticEntry(g) ==
  \E i \in 1..Len(EntriesRead) : EntriesRead[i].hashed = g /\ EntriesRead[i].range # << >>

\* The positions of the result rows of hash-key group g; of those without a
\* range column value (the static row on its own).
RowsOfGroup(g) == {i \in 1..Len(RowsSoFar) : RowsSoFar[i][1] = g}

StandaloneOfGroup(g) == {i \in RowsOfGroup(g) : RowsSoFar[i][2] = << >>}

\* C33: of a statement read to the end, in non-distinct mode the static row
\* of a hash-key group is in the result on its own exactly once when the
\* group has no non-static row and never when it has one; in distinct mode
\* the result has exactly one row for each hash-key group.
C33_StaticRows ==
  CompleteRead
    => \A g \in GroupsRead :
         IF lastRead.kv.distinct
         THEN Cardinality(RowsOfGroup(g)) = 1
         ELSE Cardinality(StandaloneOfGroup(g))
                = (IF HasStaticEntry(g) /\ ~HasNonStaticEntry(g) THEN 1 ELSE 0)

\* ------------------------------------------------- the limit of a read
\* C34: a read with limit L returns at most L rows on every page, whatever
\* its mode and whatever static and non-static entries it scans; with L = 0
\* it returns no row and no paging state, and it leaves the restart-read
\* hint as it was, having opened no iterator on the store.
C34_Limit ==
  lastRead.cmd = "QLREAD"
    => /\ lastRead.st = "OK"
       /\ lastRead.kv.limit # << >> => Len(lastRead.resp.rows) <= lastRead.kv.limit[1]
       /\ lastRead.kv.limit = <<0>>
            => /\ lastRead.resp = QLReadResponse(<< >>, << >>)
               /\ lastRead.args.restart_read_ht = 0

\* A read of all columns with limit 1 over a static row of hash key 1 that
\* no row of hash key 1 follows and a row of hash key 2: the static row is
\* put off, then emitted on its own, and the row read with it is not added.
C34_Witness ==
  /\ lastRead.cmd = "QLREAD"
  /\ lastRead.kv.limit = <<1>>
  /\ ~lastRead.kv.distinct
  /\ ~lastRead.kv.is_aggregate
  /\ lastRead.kv.where_expr = << >>
  /\ lastRead.kv.paging_state = << >>
  /\ lastRead.kv.column_refs.static_ids # {}
  /\ HasStaticEntry(<<1>>) /\ ~HasNonStaticEntry(<<1>>) /\ HasNonStaticEntry(<<2>>)
  /\ Len(lastRead.resp.rows) = 1
  /\ lastRead.resp.rows[1][2] = << >>

\* --------------------------------------- partition key of a resumed read
\* GetPartitionKey was called on a request that carries a paging state with
\* a non-empty next partition key.
ResumedRead ==
  /\ readOp.called
  /\ readOp.pre.paging_state # << >>
  /\ readOp.pre.paging_state[1].has_next_partition_key
  /\ readOp.pre.paging_state[1].next_partition_key # << >>

PagingKey == readOp.pre.paging_state[1].next_partition_key

\* The hash code of the paging key, from its two bytes.
PagingHashCode == PagingKey[1] * 2^8 + PagingKey[2]

\* The paging key is the outcome: status OK, the partition key is the paging
\* key, and hash_code is its hash code.
PagingKeyTaken ==
  /\ readOp.st = "OK"
  /\ readOp.partition_key = PagingKey
  /\ readOp.request.has_hash_code
  /\ readOp.request.hash_code = PagingHashCode

\* The paging hash code is below hash_code or above max_hash_code of r.
OutOfBounds(r) ==
  \/ r.has_hash_code /\ PagingHashCode < r.hash_code
  \/ r.has_max_hash_code /\ PagingHashCode > r.max_hash_code

\* C35 as stated, the bounds being those of the request the caller built:
\* a paging key out of them gives an error status, one within them is taken.
C35_AsStated ==
  ResumedRead
    => IF OutOfBounds(readOp.pre) THEN readOp.st # "OK" ELSE PagingKeyTaken

\* The hash code of the partition key that GetPartitionKey computes for a
\* request with hashed column values: that of the values, raised to hash_code
\* and then lowered to max_hash_code where the request has them.
PointHashCode(r) ==
  LET Lowered(h) == IF r.has_max_hash_code /\ h > r.max_hash_code THEN r.max_hash_code ELSE h
      Raised(h) == Lowered(IF r.has_hash_code /\ h < r.hash_code THEN r.hash_code ELSE h)
      HashOf(key) == key[1] * 2^8 + key[2]
  IN Raised(HashOf(EncodeKey(r.hashed_column_values)))

\* C35: the bounds the paging key is checked against are those of the
\* request when the check is made.  Without hashed column values they are
\* the caller's: a paging key out of them gives an InternalError status, one
\* within them is taken.  With hashed column values both bounds have been
\* set to the hash code of the partition key computed from the values: a
\* paging key with another hash code gives an InternalError status, also
\* within the caller's bounds, and one with that hash code is taken.
C35_PagingKeyBounds ==
  ResumedRead
    => IF readOp.pre.hashed_column_values = << >>
       THEN IF OutOfBounds(readOp.pre)
            THEN readOp.st = "InternalError" /\ readOp.request = readOp.pre
            ELSE PagingKeyTaken
       ELSE IF PagingHashCode # PointHashCode(readOp.pre)
            THEN readOp.st = "InternalError"
            ELSE PagingKeyTaken

\* A request with the hashed column value 0 (hash code 1) and the caller's
\* bounds [0, 2^16 - 1], resumed from a paging key of hash code 2^8 + 1:
\* within the caller's bounds, and rejected.
C35_Witness ==
  /\ ResumedRead
  /\ readOp.pre.hashed_column_values = <<0>>
  /\ readOp.pre.has_hash_code /\ readOp.pre.hash_code = 0
  /\ readOp.pre.has_max_hash_code /\ readOp.pre.max_hash_code = 2^16 - 1
  /\ PagingHashCode = 2^8 + 1
  /\ ~OutOfBounds(readOp.pre)
  /\ readOp.st = "InternalError"

\* ------------------------------------------------ KV writes that do not end OK
RedisWriteCmds ==
  {"SET", "GETSET", "APPEND", "SETRANGE", "INCR", "HSET", "ZADD", "SADD", "DEL", "SUBDEL", "ZREM"}

\* The last operation is a KV write that did not end in an OK response: its
\* response code is set to another code, or it has an error message, or the
\* call status is not OK.
RedisWriteNotOk ==
  /\ nOps >= 1
  /\ lastOp.cmd \in RedisWriteCmds
  /\ \/ lastOp.resp.code \notin {"OK", "unset"}
     \/ lastOp.resp.err # ""
     \/ lastOp.st # "OK"

\* C36: a KV write command that ends with a response code other than OK,
\* with a response error message or with a call status other than OK has
\* appended no mutation to the write batch.
C36_NoMutationUnlessOk == RedisWriteNotOk => batch = lastOp.pre

\* A GETSET on a key that holds a hash, in a batch that already has a
\* mutation: the response is WRONG_TYPE and the batch is as it was.
C36_Witness ==
  /\ RedisWriteNotOk
  /\ lastOp.cmd = "GETSET"
  /\ StoredType(hist[lastOp.readT]) = "HASH"
  /\ lastOp.resp.code = "WRONG_TYPE"
  /\ lastOp.pre.puts # << >>
  /\ batch = lastOp.pre

\* ---------------------------------------------- TabletInvoker: server choice
\* The last handler was Execute on the leader-only path: of an invoker with
\* its tablet, not bound to the local server, and not a consistent-prefix
\* read that may go to a follower.
LeaderOnlyExecute ==
  /\ invoker.last.op = "Execute"
  /\ invoker.last.pre.has_tablet
  /\ ~invoker.last.pre.local_tserver_only
  /\ ~(invoker.last.pre.consistent_prefix /\ ~invoker.last.in.leader_only)

\* The leader the tablet had cached when Execute began.
CachedLeader == LeaderTServer(invoker.last.pre.tablet)

\* The replicas Execute could guess as the leader: those that
\* GetRemoteTabletServers returned and followers_ does not hold.
FreeReplicas ==
  {ts \in Replicas : /\ ts \notin invoker.last.pre.followers
                     /\ ts \notin invoker.last.pre.tablet.failed \ invoker.last.in.again}

\* On the leader-only path the RPC goes to no member of followers_; a cached
\* leader that is in followers_ is demoted, and a replica out of followers_
\* becomes the guessed leader; with every replica in followers_ nothing is
\* sent and the master is asked.
SelectionAvoidsFollowers ==
  LeaderOnlyExecute
    => /\ invoker.last.sent => invoker.current_ts \notin invoker.followers
       /\ (CachedLeader # NoTs /\ CachedLeader \in invoker.last.pre.followers)
            => /\ LeaderTServer(invoker.tablet) # CachedLeader
               /\ invoker.tablet.leader # CachedLeader
               /\ FreeReplicas # {}
                    => /\ invoker.current_ts \in FreeReplicas
                       /\ invoker.current_ts # CachedLeader
                       /\ invoker.assign_new_leader
       /\ invoker.last.pre.followers = Replicas
            => /\ ~invoker.last.sent
               /\ invoker.pc = "lookup"
               /\ invoker.current_ts = NoTs

\* The master lookup that Execute issued with every replica in followers_
\* has ended.
LookupEnded ==
  /\ invoker.last.op = "LookupTabletCb"
  /\ invoker.last.pre.followers = Replicas

ResponseWith(codes) ==
  /\ invoker.last.op = "Done"
  /\ invoker.last.in.rsp_code \in codes

\* Done went past its early return (the call was not aborted and the retrier
\* is not finished).
ResponseHandled == invoker.last.in.status = "OK" /\ ~invoker.last.in.retrier_finished

\* C38: a NOT_THE_LEADER or STALE_FOLLOWER response leaves the shared
\* RemoteTablet as it is, no replica marked failed; NOT_THE_LEADER adds the
\* server to followers_ of this invoker and nothing else; a
\* LEADER_NOT_READY_TO_SERVE response marks no replica failed and leaves
\* followers_ as it is, so the server it came from is as eligible as before.
C38_NoFailedMark ==
  /\ ResponseWith({"NOT_THE_LEADER", "STALE_FOLLOWER"})
       => invoker.tablet = invoker.last.pre.tablet
  /\ ResponseWith({"NOT_THE_LEADER"})
       => /\ invoker.followers \subseteq invoker.last.pre.followers \cup {invoker.current_ts}
          /\ ResponseHandled => invoker.current_ts \in invoker.followers
          /\ invoker.current_ts = invoker.last.pre.current_ts
  /\ ResponseWith({"LEADER_NOT_READY_TO_SERVE"})
       => /\ invoker.tablet = invoker.last.pre.tablet
          /\ invoker.followers = invoker.last.pre.followers
          /\ invoker.current_ts = invoker.last.pre.current_ts

\* The cached leader answered NOT_THE_LEADER: it is in followers_ now, no
\* replica is marked failed, and the retry is scheduled.
C38_Witness ==
  /\ ResponseWith({"NOT_THE_LEADER"})
  /\ ResponseHandled
  /\ invoker.last.pre.followers = {}
  /\ invoker.followers = {invoker.current_ts}
  /\ invoker.tablet.failed = {}
  /\ invoker.tablet.leader = invoker.current_ts
  /\ invoker.last.scheduled

\* ------------------------------------- TabletInvoker: retry or completion
\* The last handler was Done.
DoneCalled == invoker.last.op = "Done"

\* C39 (as stated): Done returns false only when a retry was scheduled.
C39_AsStated == DoneCalled => (~invoker.last.ret => invoker.last.scheduled)

\* For one response, either the retry is scheduled or the operation is
\* completed, never both and never neither: Done returns true and its caller
\* completes the operation, or Done returns false having scheduled the retry
\* or having finished the command itself.
RetryOrCompletion ==
  DoneCalled
    => /\ invoker.last.ret => (~invoker.last.scheduled /\ ~invoker.last.finished)
       /\ ~invoker.last.ret => (invoker.last.scheduled # invoker.last.finished)
       /\ invoker.last.scheduled
            => (invoker.pc = "run" /\ invoker.completions = invoker.last.pre.completions)
       /\ ~invoker.last.scheduled
            => (invoker.pc = "done" /\ invoker.completions = invoker.last.pre.completions + 1)

\* The operation is never completed twice, and it is completed once the
\* command is done.
CompletedOnce ==
  /\ invoker.completions <= 1
  /\ invoker.pc = "done" <=> invoker.completions = 1

\* C39: for each response exactly one of 'retry scheduled' and 'operation
\* completed' happens: Done returns true, and its caller completes the
\* operation, only without a retry scheduled; it returns false with the
\* retry scheduled, or with the command finished by Done itself when the
\* retrier refuses the retry of a failure other than IllegalState.  With a
\* retrier that refuses after a bounded number of retries, every command is
\* completed, exactly once.
C39_CompletesOnce ==
  /\ [](RetryOrCompletion /\ CompletedOnce)
  /\ <>[](invoker.pc = "done" /\ invoker.completions = 1)

\* The leader was not ready and the retrier refused the retry: Done finished
\* the command itself and returned false.
C39_Witness ==
  /\ DoneCalled
  /\ invoker.last.in.rsp_code = "LEADER_NOT_READY_TO_SERVE"
  /\ ~invoker.last.ret
  /\ ~invoker.last.scheduled
  /\ invoker.last.finished
  /\ invoker.pc = "done"
  /\ invoker.completions = 1


====
